---- MODULE Spec2Model ----
(***************************************************************************)
(* A model of mcp-todo: the SQLite-backed item store (TodoServiceImpl),    *)
(* the tool dispatcher (executeMCPTool) and the /chat tool-calling loop of *)
(* the web server, together with the direct REST handlers that share the   *)
(* store.                                                                  *)
(*                                                                         *)
(* Conventions                                                             *)
(*  - a JS object is a record; a key whose value is undefined is modelled  *)
(*    as an absent key (zod's .optional() and the code's `!== undefined`   *)
(*    tests treat the two alike);                                          *)
(*  - a string that the code trims or measures is a sequence of one-       *)
(*    character strings, " " being the whitespace character;               *)
(*  - a todo id is a number: 1.. are well-formed UUIDs (randomUUID hands   *)
(*    them out in order, never twice), NoId is any value that is not a     *)
(*    UUID string (undefined, "not-a-uuid");                               *)
(*  - a timestamp is the millisecond clock value at which it was taken.    *)
(***************************************************************************)
EXTENDS Integers, Sequences, FiniteSets, TLC

(***************************************************************************)
(* Bounds of the model.                                                    *)
(***************************************************************************)
\* rows the store may ever hold (creates stop at this many ids)
MaxTodos == 3
\* milliseconds the clock may advance
MaxClock == 1
\* tool_use responses the modelled LLM may give in one chat turn
MaxToolIters == 2
\* direct REST calls in one behaviour of the store specification
MaxApiCalls == 2

(***************************************************************************)
(* Program constants.                                                      *)
(***************************************************************************)
\* SQL NULL / JS null, for dueDate and for MAX() over no rows
NULL == -1
\* priority used when the metadata gives none
DefaultPriority == 3
MinPriority == 1
MaxPriority == 5
\* a value that is not a UUID string
NoId == 0
\* a value better-sqlite3 refuses to bind (a boolean, an object, undefined)
NotBindable == -2

VARIABLES
    todos,        \* the todos table: id -> row
    nextId,       \* the next id randomUUID() returns
    clock,        \* Date.now()
    pc,           \* where the /chat handler is: idle, awaiting_model, done, error
    request,      \* req.body of the turn: message and conversationHistory
    messages,     \* the handler's messages array
    response,     \* the handler's `response` (the last completion)
    reply,        \* what the handler sent with res.json / res.status
    toolError,    \* the handler's toolError local of the last iteration
    responses,    \* every completion the LLM returned in this turn
    dispatched,   \* every executeMCPTool call of this turn
    llmCalls,     \* the messages array of every anthropic.messages.create call
    llmFailures,  \* completion calls of this turn that rejected
    apiCalls,     \* direct REST calls made so far
    lastOp,       \* the last store operation run through the REST surface
    txn           \* the open better-sqlite3 transaction of reorderTodos, if any

vars == <<todos, nextId, clock, pc, request, messages, response, reply,
          toolError, responses, dispatched, llmCalls, llmFailures, apiCalls, lastOp,
          txn>>

storeVars == <<todos, nextId>>
chatVars == <<pc, request, messages, response, reply, toolError, responses,
              dispatched, llmCalls, llmFailures>>

(***************************************************************************)
(* JS helpers.                                                             *)
(***************************************************************************)
\* obj.key !== undefined
Has(obj, key) == key \in DOMAIN obj

\* the object literal { k: src.k, ... } for the keys given
Pick(src, keys) == [k \in (keys \cap DOMAIN src) |-> src[k]]

\* the empty object {}
EmptyObj == [k \in {} |-> 0]

\* typeof text !== 'string'
UNDEFINED == <<"undefined">>

IsSpace(c) == c = " "

RECURSIVE TrimStart(_)
TrimStart(s) ==
    IF s = <<>> THEN <<>>
    ELSE IF IsSpace(Head(s)) THEN TrimStart(Tail(s)) ELSE s

RECURSIVE TrimEnd(_)
TrimEnd(s) ==
    IF s = <<>> THEN <<>>
    ELSE IF IsSpace(s[Len(s)]) THEN TrimEnd(SubSeq(s, 1, Len(s) - 1)) ELSE s

\* String.prototype.trim
Trim(s) == TrimEnd(TrimStart(s))

\* JSON.stringify of an array of strings, as its tokens
RECURSIVE JoinTags(_)
JoinTags(tags) ==
    IF tags = <<>> THEN <<>>
    ELSE IF Len(tags) = 1 THEN <<tags[1]>>
    ELSE <<tags[1], ",">> \o JoinTags(Tail(tags))

StringifyTags(tags) == <<"[">> \o JoinTags(tags) \o <<"]">>

\* JSON.parse of such a string
ParseTags(s) ==
    LET inner == SubSeq(s, 2, Len(s) - 1)
    IN  [i \in 1..((Len(inner) + 1) \div 2) |-> inner[2 * i - 1]]

\* value ? 1 : 0
ToInt(b) == IF b THEN 1 ELSE 0

\* Boolean(n)
ToBool(n) == n # 0

(***************************************************************************)
(* zod schemas (src/schemas.js).  Values are well-typed in this model; a   *)
(* schema rejects a missing required key, a malformed id, an empty string  *)
(* and a priority outside 1..5.                                            *)
(***************************************************************************)
IsUuid(id) == id >= 1

\* JS numbers here are the integers and the numbers half-way between two of
\* them: Half(n) stands for n + 0.5
Half(n) == 100 + n

\* Number.isInteger
IsInteger(v) == v < 100

\* v >= k and v <= k for a number v and an integer k
NumGE(v, k) == IF IsInteger(v) THEN v >= k ELSE v - 100 >= k
NumLE(v, k) == IF IsInteger(v) THEN v <= k ELSE v - 100 <= k - 1

\* z.number().min(1).max(5): the range alone, a fraction allowed
PriorityOk_NoInt(obj) ==
    Has(obj, "priority") =>
        NumGE(obj.priority, MinPriority) /\ NumLE(obj.priority, MaxPriority)

\* z.number().int().min(1): no upper limit
PriorityOk_NoMax(obj) ==
    Has(obj, "priority") =>
        IsInteger(obj.priority) /\ NumGE(obj.priority, MinPriority)

\* z.number().int().min(1).max(5).optional()
PriorityOk(obj) ==
    Has(obj, "priority") =>
        /\ IsInteger(obj.priority)
        /\ NumGE(obj.priority, MinPriority)
        /\ NumLE(obj.priority, MaxPriority)

TextMin1Ok(obj) == Has(obj, "text") => (obj.text # UNDEFINED /\ Len(obj.text) >= 1)

ZodError(path) == [name |-> "ZodError", message |-> <<"invalid", path>>]

JsError(msg) == [name |-> "Error", message |-> msg]

\* TodoCreateMetadataSchema.parse: the issue path it fails on, or "" when it passes
TodoCreateMetadataIssue(metadata) ==
    IF ~PriorityOk(metadata) THEN "priority" ELSE ""

TodoCreateMetadataKeys == {"starred", "priority", "tags", "dueDate"}

\* TodoUpdateSchema.parse({ id, ...updates })
TodoUpdateIssue(id, updates) ==
    IF ~IsUuid(id) THEN "id"
    ELSE IF ~TextMin1Ok(updates) THEN "text"
    ELSE IF ~PriorityOk(updates) THEN "priority"
    ELSE ""

\* the keys TodoUpdateSchema keeps (z.object strips the others)
TodoUpdateKeys == {"text", "completed", "starred", "priority", "tags", "dueDate"}

\* TodoFiltersSchema.parse
TodoFiltersIssue(filters) ==
    IF ~PriorityOk(filters) THEN "priority" ELSE ""

TodoFiltersKeys == {"starred", "priority", "tags", "completed"}

(***************************************************************************)
(* TodoServiceImpl (the store).  Each method is an operator from the table *)
(* (and the clock, the next id) to an outcome:                             *)
(*   [threw |-> FALSE, value |-> v, todos |-> table after]                 *)
(*   [threw |-> TRUE,  error |-> e, todos |-> table after]                 *)
(***************************************************************************)
Returned(v, t) == [threw |-> FALSE, value |-> v, todos |-> t]
Threw(e, t) == [threw |-> TRUE, error |-> e, todos |-> t]

\* maxOrder ?? -1: an empty table counts as a highest displayOrder of -1
OrZero_MinusOne(n) == IF n = NULL THEN -1 ELSE n

\* row.displayOrder || 0   and   maxOrder || 0
OrZero(n) == IF n = NULL \/ n = 0 THEN 0 ELSE n

rowToTodo(row) ==
    [id |-> row.id,
     text |-> row.text,
     completed |-> ToBool(row.completed),
     starred |-> ToBool(row.starred),
     priority |-> row.priority,
     tags |-> ParseTags(row.tags),
     dueDate |-> row.dueDate,
     displayOrder |-> OrZero(row.displayOrder),
     createdAt |-> row.createdAt,
     updatedAt |-> row.updatedAt]

\* SELECT MAX(displayOrder) FROM todos
MaxDisplayOrder(t) ==
    IF DOMAIN t = {} THEN NULL
    ELSE CHOOSE m \in {t[i].displayOrder : i \in DOMAIN t} :
            \A i \in DOMAIN t : t[i].displayOrder <= m

\* createTodo that takes the number of rows for the highest displayOrder
createTodo_CountBased(t, id, now, text, metadata) ==
    IF text = UNDEFINED \/ Len(Trim(text)) = 0
    THEN Threw(JsError(<<"Todo text is", "required", "and cannot be", "empty">>), t)
    ELSE IF TodoCreateMetadataIssue(metadata) # ""
    THEN Threw(ZodError(TodoCreateMetadataIssue(metadata)), t)
    ELSE
      LET validatedMetadata == Pick(metadata, TodoCreateMetadataKeys)
          displayOrder == Cardinality(DOMAIN t) + 1
          row == [id |-> id,
                  text |-> Trim(text),
                  completed |-> 0,
                  starred |-> IF Has(validatedMetadata, "starred")
                              THEN ToInt(validatedMetadata.starred) ELSE 0,
                  priority |-> IF Has(validatedMetadata, "priority")
                               THEN validatedMetadata.priority ELSE DefaultPriority,
                  tags |-> StringifyTags(IF Has(validatedMetadata, "tags")
                                         THEN validatedMetadata.tags ELSE <<>>),
                  dueDate |-> IF Has(validatedMetadata, "dueDate")
                              THEN validatedMetadata.dueDate ELSE NULL,
                  displayOrder |-> displayOrder,
                  createdAt |-> now,
                  updatedAt |-> now]
          after == (id :> row) @@ t
      IN  Returned(rowToTodo(after[id]), after)

createTodo(t, id, now, text, metadata) ==
    IF text = UNDEFINED \/ Len(Trim(text)) = 0
    THEN Threw(JsError(<<"Todo text is", "required", "and cannot be", "empty">>), t)
    ELSE IF TodoCreateMetadataIssue(metadata) # ""
    THEN Threw(ZodError(TodoCreateMetadataIssue(metadata)), t)
    ELSE
      LET validatedMetadata == Pick(metadata, TodoCreateMetadataKeys)
          displayOrder == OrZero(MaxDisplayOrder(t)) + 1
          row == [id |-> id,
                  text |-> Trim(text),
                  completed |-> 0,
                  starred |-> IF Has(validatedMetadata, "starred")
                              THEN ToInt(validatedMetadata.starred) ELSE 0,
                  priority |-> IF Has(validatedMetadata, "priority")
                               THEN validatedMetadata.priority ELSE DefaultPriority,
                  tags |-> StringifyTags(IF Has(validatedMetadata, "tags")
                                         THEN validatedMetadata.tags ELSE <<>>),
                  dueDate |-> IF Has(validatedMetadata, "dueDate")
                              THEN validatedMetadata.dueDate ELSE NULL,
                  displayOrder |-> displayOrder,
                  createdAt |-> now,
                  updatedAt |-> now]
          after == (id :> row) @@ t
      IN  Returned(rowToTodo(after[id]), after)

\* UpdatedRow with an UPDATE that sets every column, an omitted one to its default
UpdatedRow_ClearsOmitted(current, u, updatedAt) ==
    [current EXCEPT
       !.text = IF Has(u, "text") THEN Trim(u.text) ELSE @,
       !.completed = IF Has(u, "completed") THEN ToInt(u.completed) ELSE 0,
       !.starred = IF Has(u, "starred") THEN ToInt(u.starred) ELSE 0,
       !.priority = IF Has(u, "priority") THEN u.priority ELSE DefaultPriority,
       !.tags = IF Has(u, "tags") THEN StringifyTags(u.tags) ELSE StringifyTags(<<>>),
       !.dueDate = IF Has(u, "dueDate") THEN u.dueDate ELSE NULL,
       !.displayOrder = IF Has(u, "displayOrder") THEN u.displayOrder ELSE @,
       !.updatedAt = updatedAt]

\* UpdatedRow with an UPDATE that leaves updatedAt alone
UpdatedRow_KeepsUpdatedAt(current, u, updatedAt) ==
    [current EXCEPT
       !.text = IF Has(u, "text") THEN Trim(u.text) ELSE @,
       !.completed = IF Has(u, "completed") THEN ToInt(u.completed) ELSE @,
       !.starred = IF Has(u, "starred") THEN ToInt(u.starred) ELSE @,
       !.priority = IF Has(u, "priority") THEN u.priority ELSE @,
       !.tags = IF Has(u, "tags") THEN StringifyTags(u.tags) ELSE @,
       !.dueDate = IF Has(u, "dueDate") THEN u.dueDate ELSE @,
       !.displayOrder = IF Has(u, "displayOrder") THEN u.displayOrder ELSE @]

\* UpdatedRow with an UPDATE that writes the time into createdAt as well
UpdatedRow_StampsCreatedAt(current, u, updatedAt) ==
    [current EXCEPT
       !.text = IF Has(u, "text") THEN Trim(u.text) ELSE @,
       !.completed = IF Has(u, "completed") THEN ToInt(u.completed) ELSE @,
       !.starred = IF Has(u, "starred") THEN ToInt(u.starred) ELSE @,
       !.priority = IF Has(u, "priority") THEN u.priority ELSE @,
       !.tags = IF Has(u, "tags") THEN StringifyTags(u.tags) ELSE @,
       !.dueDate = IF Has(u, "dueDate") THEN u.dueDate ELSE @,
       !.displayOrder = IF Has(u, "displayOrder") THEN u.displayOrder ELSE @,
       !.createdAt = updatedAt,
       !.updatedAt = updatedAt]

\* UpdatedRow that keeps a completion flag another writer has already set
UpdatedRow_FirstWriteWins(current, u, updatedAt) ==
    [current EXCEPT
       !.text = IF Has(u, "text") THEN Trim(u.text) ELSE @,
       !.completed = IF Has(u, "completed") /\ current.completed = 0
                     THEN ToInt(u.completed) ELSE @,
       !.starred = IF Has(u, "starred") THEN ToInt(u.starred) ELSE @,
       !.priority = IF Has(u, "priority") THEN u.priority ELSE @,
       !.tags = IF Has(u, "tags") THEN StringifyTags(u.tags) ELSE @,
       !.dueDate = IF Has(u, "dueDate") THEN u.dueDate ELSE @,
       !.displayOrder = IF Has(u, "displayOrder") THEN u.displayOrder ELSE @,
       !.updatedAt = updatedAt]

\* UPDATE todos SET <the supplied fields>, updatedAt = ? WHERE id = ?
UpdatedRow(current, u, updatedAt) ==
    [current EXCEPT
       !.text = IF Has(u, "text") THEN Trim(u.text) ELSE @,
       !.completed = IF Has(u, "completed") THEN ToInt(u.completed) ELSE @,
       !.starred = IF Has(u, "starred") THEN ToInt(u.starred) ELSE @,
       !.priority = IF Has(u, "priority") THEN u.priority ELSE @,
       !.tags = IF Has(u, "tags") THEN StringifyTags(u.tags) ELSE @,
       !.dueDate = IF Has(u, "dueDate") THEN u.dueDate ELSE @,
       !.displayOrder = IF Has(u, "displayOrder") THEN u.displayOrder ELSE @,
       !.updatedAt = updatedAt]

\* updateTodo writing updatedAt before it validates its input
updateTodo_StampsFirst(t, now, id, updates) ==
    LET stamped == [i \in DOMAIN t |->
                      IF i = id THEN [t[i] EXCEPT !.updatedAt = now] ELSE t[i]]
    IN  IF TodoUpdateIssue(id, updates) # ""
        THEN Threw(ZodError(TodoUpdateIssue(id, updates)), stamped)
        ELSE IF id \notin DOMAIN t
        THEN Threw(JsError(<<"Todo", ToString(id), "not found">>), t)
        ELSE
          LET validatedUpdates == Pick(updates, TodoUpdateKeys)
              after == [t EXCEPT ![id] = UpdatedRow(t[id], validatedUpdates, now)]
          IN  Returned(rowToTodo(after[id]), after)

updateTodo(t, now, id, updates) ==
    IF TodoUpdateIssue(id, updates) # ""
    THEN Threw(ZodError(TodoUpdateIssue(id, updates)), t)
    ELSE IF id \notin DOMAIN t
    THEN Threw(JsError(<<"Todo", ToString(id), "not found">>), t)
    ELSE
      LET validatedUpdates == Pick(updates, TodoUpdateKeys)
          after == [t EXCEPT ![id] = UpdatedRow(t[id], validatedUpdates, now)]
      IN  Returned(rowToTodo(after[id]), after)

\* deleteTodo that closes the gap: the items after the deleted one move up
deleteTodo_ClosesGap(t, id) ==
    IF ~IsUuid(id)
    THEN Threw(ZodError("id"), t)
    ELSE Returned(id \in DOMAIN t,
                  [i \in DOMAIN t \ {id} |->
                     IF id \in DOMAIN t /\ t[i].displayOrder > t[id].displayOrder
                     THEN [t[i] EXCEPT !.displayOrder = @ - 1]
                     ELSE t[i]])

\* deleteTodo returning true whether or not a row was deleted
deleteTodo_AlwaysTrue(t, id) ==
    IF ~IsUuid(id)
    THEN Threw(ZodError("id"), t)
    ELSE Returned(TRUE, [i \in DOMAIN t \ {id} |-> t[i]])

deleteTodo(t, id) ==
    IF ~IsUuid(id)
    THEN Threw(ZodError("id"), t)
    ELSE Returned(id \in DOMAIN t, [i \in DOMAIN t \ {id} |-> t[i]])

toggleStarred(t, now, id, args) == updateTodo(t, now, id, Pick(args, {"starred"}))

setPriority(t, now, id, args) == updateTodo(t, now, id, Pick(args, {"priority"}))

setTags(t, now, id, args) == updateTodo(t, now, id, Pick(args, {"tags"}))

\* the TypeError of Statement#run for a parameter SQLite cannot bind
BindError == JsError(<<"SQLite3 can only bind numbers, strings, bigints, buffers, and null">>)

\* no transaction is open
NoTxn == [active |-> FALSE]

\* ReorderRun with the position counted from 1
ReorderRun_OneBased(t, index, now, id) ==
    IF id \in DOMAIN t
    THEN [t EXCEPT ![id] = [@ EXCEPT !.displayOrder = index + 1, !.updatedAt = now]]
    ELSE t

\* ReorderRun with an UPDATE that stamps every row, not only the row of the id
ReorderRun_TouchAll(t, index, now, id) ==
    [i \in DOMAIN t |->
        IF i = id THEN [t[i] EXCEPT !.displayOrder = index, !.updatedAt = now]
        ELSE [t[i] EXCEPT !.updatedAt = now]]

\* updateStmt.run(index, now, id): UPDATE ... WHERE id = ?
ReorderRun(t, index, now, id) ==
    IF id \in DOMAIN t
    THEN [t EXCEPT ![id] = [@ EXCEPT !.displayOrder = index, !.updatedAt = now]]
    ELSE t

\* ids.forEach((id, index) => updateStmt.run(index, now, id)), for the first n ids
RECURSIVE ReorderEach(_, _, _, _)
ReorderEach(t, ids, n, now) ==
    IF n = 0 THEN t
    ELSE ReorderRun(ReorderEach(t, ids, n - 1, now), n - 1, now, ids[n])

\* reorderTodos whose transaction first stamps every row with the time
reorderTodos_StampsAll(t, now, orderedIds) ==
    IF ~orderedIds.array
    THEN Threw(JsError(<<"orderedIds must be an array">>), t)
    ELSE IF \E i \in 1..Len(orderedIds.items) : orderedIds.items[i] = NotBindable
    THEN Threw(BindError, t)
    ELSE Returned(UNDEFINED,
                  ReorderEach([i \in DOMAIN t |-> [t[i] EXCEPT !.updatedAt = now]],
                              orderedIds.items, Len(orderedIds.items), now))

\* reorderTodos that throws when an id of the list names no stored item
reorderTodos_RejectsUnknown(t, now, orderedIds) ==
    IF ~orderedIds.array
    THEN Threw(JsError(<<"orderedIds must be an array">>), t)
    ELSE IF \E i \in 1..Len(orderedIds.items) : orderedIds.items[i] = NotBindable
    THEN Threw(BindError, t)
    ELSE IF \E i \in 1..Len(orderedIds.items) : orderedIds.items[i] \notin DOMAIN t
    THEN Threw(JsError(<<"Todo", "not found">>), t)
    ELSE Returned(UNDEFINED,
                  ReorderEach(t, orderedIds.items, Len(orderedIds.items), now))

\* orderedIds is [array |-> TRUE, items |-> <<ids>>] or [array |-> FALSE]
\* the whole call; a statement that throws inside the transaction function makes
\* better-sqlite3 roll back and rethrow
reorderTodos(t, now, orderedIds) ==
    IF ~orderedIds.array
    THEN Threw(JsError(<<"orderedIds must be an array">>), t)
    ELSE IF \E i \in 1..Len(orderedIds.items) : orderedIds.items[i] = NotBindable
    THEN Threw(BindError, t)
    ELSE Returned(UNDEFINED,
                  ReorderEach(t, orderedIds.items, Len(orderedIds.items), now))

\* RowBefore with the rows of one displayOrder and priority oldest first
RowBefore_CreatedAsc(a, b) ==
    \/ a.displayOrder < b.displayOrder
    \/ /\ a.displayOrder = b.displayOrder
       /\ \/ a.priority < b.priority
          \/ /\ a.priority = b.priority
             /\ \/ a.createdAt < b.createdAt
                \/ a.createdAt = b.createdAt /\ a.id < b.id

\* ORDER BY displayOrder ASC, priority ASC, createdAt DESC; rows that tie on all
\* three come out in rowid (insertion) order, which is the order of the ids here
RowBefore(a, b) ==
    \/ a.displayOrder < b.displayOrder
    \/ /\ a.displayOrder = b.displayOrder
       /\ \/ a.priority < b.priority
          \/ /\ a.priority = b.priority
             /\ \/ a.createdAt > b.createdAt
                \/ a.createdAt = b.createdAt /\ a.id < b.id

RECURSIVE OrderBy(_)
OrderBy(rows) ==
    IF rows = {} THEN <<>>
    ELSE LET first == CHOOSE r \in rows : \A o \in rows \ {r} : RowBefore(r, o)
         IN  <<first>> \o OrderBy(rows \ {first})

\* the WHERE clause getTodos builds
RowMatches(row, f) ==
    /\ Has(f, "starred") => row.starred = ToInt(f.starred)
    /\ Has(f, "priority") => row.priority = f.priority
    /\ Has(f, "completed") => row.completed = ToInt(f.completed)

\* TagsMatch that wants every requested tag on the item
TagsMatch_Every(todo, f) ==
    \/ ~Has(f, "tags")
    \/ Len(f.tags) = 0
    \/ \A i \in 1..Len(f.tags) : \E j \in 1..Len(todo.tags) : f.tags[i] = todo.tags[j]

\* TagsMatch that runs tags.some(...) on an empty array too
TagsMatch_SomeOfEmpty(todo, f) ==
    \/ ~Has(f, "tags")
    \/ \E i \in 1..Len(f.tags) : \E j \in 1..Len(todo.tags) : f.tags[i] = todo.tags[j]

\* tags.some(tag => todo.tags.includes(tag)), skipped for no or empty tags
TagsMatch(todo, f) ==
    \/ ~Has(f, "tags")
    \/ Len(f.tags) = 0
    \/ \E i \in 1..Len(f.tags) : \E j \in 1..Len(todo.tags) : f.tags[i] = todo.tags[j]

\* getTodos that writes each row's position in the result back as its displayOrder
getTodos_Renumbering(t, filters) ==
    IF TodoFiltersIssue(filters) # ""
    THEN Threw(ZodError(TodoFiltersIssue(filters)), t)
    ELSE
      LET validatedFilters == Pick(filters, TodoFiltersKeys)
          rows == OrderBy({t[i] : i \in {j \in DOMAIN t : RowMatches(t[j], validatedFilters)}})
          mapped == [i \in 1..Len(rows) |-> rowToTodo(rows[i])]
          KeepTodo(todo) == TagsMatch(todo, validatedFilters)
          kept == SelectSeq(mapped, KeepTodo)
          Position(id) == CHOOSE i \in 1..Len(kept) : kept[i].id = id
          after == [id \in DOMAIN t |->
                      IF \E i \in 1..Len(kept) : kept[i].id = id
                      THEN [t[id] EXCEPT !.displayOrder = Position(id) - 1]
                      ELSE t[id]]
      IN  Returned(kept, after)

getTodos(t, filters) ==
    IF TodoFiltersIssue(filters) # ""
    THEN Threw(ZodError(TodoFiltersIssue(filters)), t)
    ELSE
      LET validatedFilters == Pick(filters, TodoFiltersKeys)
          rows == OrderBy({t[i] : i \in {j \in DOMAIN t : RowMatches(t[j], validatedFilters)}})
          mapped == [i \in 1..Len(rows) |-> rowToTodo(rows[i])]
          KeepTodo(todo) == TagsMatch(todo, validatedFilters)
      IN  Returned(SelectSeq(mapped, KeepTodo), t)

(***************************************************************************)
(* The tool dispatcher of the web server: executeMCPTool(name, args).      *)
(***************************************************************************)
ToolNames == {"create_todo", "list_todos", "update_todo", "delete_todo",
              "toggle_starred", "set_priority"}

\* args.id and args.text, undefined when the key is missing
ArgId(args) == IF Has(args, "id") THEN args.id ELSE NoId
ArgText(args) == IF Has(args, "text") THEN args.text ELSE UNDEFINED

DeleteResult(result) ==
    [success |-> result,
     message |-> IF result THEN "Todo deleted successfully" ELSE "Todo not found"]

\* the outcome of a Store method, with the name of the method that was invoked
Called(method, out) == ("called" :> method) @@ out

\* executeMCPTool whose switch has no default: an unknown name lists the todos
executeMCPTool_NoDefault(t, id, now, name, args) ==
    CASE name = "create_todo" ->
           Called("createTodo",
                  createTodo(t, id, now, ArgText(args),
                             Pick(args, {"starred", "priority", "tags", "dueDate"})))
      [] name = "update_todo" ->
           Called("updateTodo",
                  updateTodo(t, now, ArgId(args),
                             Pick(args, {"text", "completed", "starred", "priority",
                                         "tags", "dueDate"})))
      [] name = "delete_todo" ->
           LET out == deleteTodo(t, ArgId(args))
           IN  Called("deleteTodo",
                      IF out.threw THEN out
                      ELSE Returned(DeleteResult(out.value), out.todos))
      [] name = "toggle_starred" ->
           Called("toggleStarred", toggleStarred(t, now, ArgId(args), args))
      [] name = "set_priority" ->
           Called("setPriority", setPriority(t, now, ArgId(args), args))
      [] OTHER -> Called("getTodos", getTodos(t, args))

executeMCPTool(t, id, now, name, args) ==
    CASE name = "create_todo" ->
           Called("createTodo",
                  createTodo(t, id, now, ArgText(args),
                             Pick(args, {"starred", "priority", "tags", "dueDate"})))
      [] name = "list_todos" -> Called("getTodos", getTodos(t, args))
      [] name = "update_todo" ->
           Called("updateTodo",
                  updateTodo(t, now, ArgId(args),
                             Pick(args, {"text", "completed", "starred", "priority",
                                         "tags", "dueDate"})))
      [] name = "delete_todo" ->
           LET out == deleteTodo(t, ArgId(args))
           IN  Called("deleteTodo",
                      IF out.threw THEN out
                      ELSE Returned(DeleteResult(out.value), out.todos))
      [] name = "toggle_starred" ->
           Called("toggleStarred", toggleStarred(t, now, ArgId(args), args))
      [] name = "set_priority" ->
           Called("setPriority", setPriority(t, now, ArgId(args), args))
      [] OTHER -> Called("none", Threw(JsError(<<"Unknown tool:", name>>), t))

\* whether the call consumed the id randomUUID() returned
TookId(t, out) == Cardinality(DOMAIN out.todos) > Cardinality(DOMAIN t)

(***************************************************************************)
(* The LLM (anthropic.messages.create), an external collaborator: what it  *)
(* may answer.                                                             *)
(***************************************************************************)
TextBlock == [type |-> "text", text |-> "ok"]

ToolUse(id, call) ==
    [type |-> "tool_use", id |-> id, name |-> call.name, input |-> call.input]

Call(name, input) == [name |-> name, input |-> input]

CreateOk == Call("create_todo", [text |-> <<" ", "a">>])
CreateNoText == Call("create_todo", [starred |-> TRUE])
UpdateOne == Call("update_todo", [id |-> 1, completed |-> TRUE])
DeleteOne == Call("delete_todo", [id |-> 1])
ToggleNoStarred == Call("toggle_starred", [id |-> 1])
PriorityTooHigh == Call("set_priority", [id |-> 1, priority |-> MaxPriority + 1])
ListAll == Call("list_todos", EmptyObj)
UnknownTool == Call("bogus_tool", EmptyObj)

ToolCalls == {CreateOk, CreateNoText, UpdateOne, DeleteOne, ToggleNoStarred,
              PriorityTooHigh, ListAll, UnknownTool}

\* response.content with at least one tool_use block
ToolUseContents ==
    {<<ToolUse("toolu_1", c)>> : c \in ToolCalls}
      \cup {<<TextBlock, ToolUse("toolu_1", CreateOk)>>}
      \cup {<<ToolUse("toolu_1", c1), ToolUse("toolu_2", c2)>> :
              c1 \in {CreateOk, UpdateOne}, c2 \in {DeleteOne, CreateOk}}

\* response.content without one
PlainContents == {<<TextBlock>>, <<>>}

Responses ==
    [stop_reason : {"tool_use"}, content : ToolUseContents \cup PlainContents]
      \cup [stop_reason : {"end_turn", "max_tokens"},
            content : PlainContents \cup {<<ToolUse("toolu_1", CreateOk)>>}]

\* what the caller may send as conversationHistory
Histories ==
    {<<>>,
     <<[role |-> "user", content |-> <<"o", "l", "d">>],
       [role |-> "assistant", content |-> <<TextBlock>>]>>}

\* what the caller may send as message (a string, as its characters)
Messages == {<<>>, <<"h", "e", "y">>}

(***************************************************************************)
(* The /chat handler.                                                      *)
(***************************************************************************)
\* FindIndex that returns the last block of the type
FindIndex_Last(content, type) ==
    IF \E i \in 1..Len(content) : content[i].type = type
    THEN CHOOSE i \in 1..Len(content) :
           /\ content[i].type = type
           /\ \A j \in (i + 1)..Len(content) : content[j].type # type
    ELSE 0

\* content.find(block => block.type === type): its index, 0 when there is none
FindIndex(content, type) ==
    IF \E i \in 1..Len(content) : content[i].type = type
    THEN CHOOSE i \in 1..Len(content) :
           /\ content[i].type = type
           /\ \A j \in 1..(i - 1) : content[j].type # type
    ELSE 0

\* JSON.stringify(result, null, 2)
JsonStringify(result) == <<"json", result>>

\* `Error: ${error.message}`
ErrorText(error) == <<"Error:">> \o error.message

ToolResultMessage(toolUse, toolResultContent) ==
    [role |-> "user",
     content |-> <<[type |-> "tool_result",
                    tool_use_id |-> toolUse.id,
                    content |-> toolResultContent]>>]

AssistantMessage(resp) == [role |-> "assistant", content |-> resp.content]

\* textContent?.text || 'No response'
FinalText(resp) ==
    LET i == FindIndex(resp.content, "text")
    IN  IF i = 0 THEN "No response" ELSE resp.content[i].text

NoReply == [status |-> 0]

\* the handler is entered: the messages array is built and the first completion asked for
ChatRequest(message, conversationHistory) ==
    /\ pc = "idle"
    /\ request' = [message |-> message, conversationHistory |-> conversationHistory]
    /\ IF Len(message) = 0
       THEN /\ reply' = [status |-> 400, error |-> "Message is required"]
            /\ pc' = "done"
            /\ UNCHANGED <<messages, llmCalls>>
       ELSE /\ messages' = conversationHistory \o <<[role |-> "user", content |-> message]>>
            /\ llmCalls' = <<messages'>>
            /\ pc' = "awaiting_model"
            /\ UNCHANGED reply
    /\ UNCHANGED <<todos, nextId, clock, response, toolError, responses, dispatched,
                   llmFailures, apiCalls, lastOp, txn>>

\* IterationMessages with the two pushes in the other order
IterationMessages_Swapped(resp, toolUse, toolResultContent) ==
    <<ToolResultMessage(toolUse, toolResultContent), AssistantMessage(resp)>>

\* IterationMessages without the push of the assistant's response
IterationMessages_NoAssistant(resp, toolUse, toolResultContent) ==
    <<ToolResultMessage(toolUse, toolResultContent)>>

\* the two messages.push calls of an iteration
IterationMessages(resp, toolUse, toolResultContent) ==
    <<AssistantMessage(resp), ToolResultMessage(toolUse, toolResultContent)>>

\* the inner try/catch: the tool's result, or the error's text
ToolResultContent(out) ==
    IF out.threw THEN ErrorText(out.error) ELSE JsonStringify(out.value)

\* the executeMCPTool call of an iteration, as the model records it
Dispatch(resp, toolUse, out) ==
    [response |-> Len(responses) + 1,
     toolUse |-> toolUse,
     threw |-> out.threw,
     called |-> out.called,
     changed |-> out.todos # todos,
     content |-> ToolResultContent(out)]

\* the body of the while loop from the executeMCPTool call to the next completion call
IterationStep(resp, toolUse, out) ==
    /\ Len(dispatched) < MaxToolIters
    /\ TookId(todos, out) => nextId <= MaxTodos
    /\ todos' = out.todos
    /\ nextId' = IF TookId(todos, out) THEN nextId + 1 ELSE nextId
    /\ toolError' = out.threw
    /\ dispatched' = Append(dispatched, Dispatch(resp, toolUse, out))
    /\ messages' = messages \o IterationMessages(resp, toolUse, ToolResultContent(out))
    /\ llmCalls' = Append(llmCalls, messages')
    /\ UNCHANGED <<pc, reply>>

\* ToolIteration with a cap of its own: after one tool call the loop is left
ToolIteration_Capped(resp) ==
    LET toolUse == resp.content[FindIndex(resp.content, "tool_use")]
        out == executeMCPTool(todos, nextId, clock, toolUse.name, toolUse.input)
    IN  IF Len(dispatched) >= 1
        THEN /\ reply' = [status |-> 200,
                          response |-> FinalText(resp),
                          conversationHistory |-> messages \o <<AssistantMessage(resp)>>]
             /\ pc' = "done"
             /\ UNCHANGED <<todos, nextId, toolError, dispatched, messages, llmCalls>>
        ELSE IterationStep(resp, toolUse, out)

\* ToolIteration without the inner try/catch: the tool's exception reaches the
\* handler's outer catch
ToolIteration_Uncaught(resp) ==
    LET toolUse == resp.content[FindIndex(resp.content, "tool_use")]
        out == executeMCPTool(todos, nextId, clock, toolUse.name, toolUse.input)
    IN  IF out.threw
        THEN /\ Len(dispatched) < MaxToolIters
             /\ dispatched' = Append(dispatched, Dispatch(resp, toolUse, out))
             /\ reply' = [status |-> 500, error |-> "Failed to process message"]
             /\ pc' = "failed"
             /\ UNCHANGED <<todos, nextId, toolError, messages, llmCalls>>
        ELSE IterationStep(resp, toolUse, out)

\* one pass through the body of the while loop, up to the next completion call
ToolIteration(resp) ==
    LET toolUse == resp.content[FindIndex(resp.content, "tool_use")]
        out == executeMCPTool(todos, nextId, clock, toolUse.name, toolUse.input)
    IN  IterationStep(resp, toolUse, out)

\* the loop is left: the final answer is sent
SendFinal(resp) ==
    /\ reply' = [status |-> 200,
                 response |-> FinalText(resp),
                 conversationHistory |-> messages \o <<AssistantMessage(resp)>>]
    /\ pc' = "done"
    /\ UNCHANGED <<todos, nextId, toolError, dispatched, messages, llmCalls>>

\* NoToolUseBreak that goes round the loop again instead of leaving it
NoToolUseBreak_Spin(resp) ==
    /\ llmCalls' = Append(llmCalls, messages)
    /\ UNCHANGED <<todos, nextId, toolError, dispatched, messages, pc, reply>>

\* if (!toolUse) break;
NoToolUseBreak(resp) == SendFinal(resp)

\* a completion arrives and the handler runs on to its next await or to its end;
\* the completion took time, so the clock has moved on
LLMReturns(resp) ==
    /\ pc = "awaiting_model"
    /\ response' = resp
    /\ responses' = Append(responses, resp)
    /\ IF resp.stop_reason = "tool_use"
       THEN IF FindIndex(resp.content, "tool_use") = 0
            THEN NoToolUseBreak(resp)
            ELSE ToolIteration(resp)
       ELSE SendFinal(resp)
    /\ clock' = clock + 1
    /\ UNCHANGED <<request, llmFailures, apiCalls, lastOp, txn>>

\* LLMThrows that asks for the completion again
LLMThrows_Retry ==
    /\ pc = "awaiting_model"
    /\ llmFailures' = llmFailures + 1
    /\ llmCalls' = Append(llmCalls, messages)
    /\ clock' = clock + 1
    /\ UNCHANGED <<todos, nextId, request, messages, response, reply, toolError,
                   responses, dispatched, pc, apiCalls, lastOp, txn>>

\* LLMThrows whose catch takes the item the turn created last out of the store
LLMThrows_RollsBack ==
    /\ pc = "awaiting_model"
    /\ llmFailures' = llmFailures + 1
    /\ reply' = [status |-> 500, error |-> "Failed to process message"]
    /\ pc' = "failed"
    /\ clock' = clock + 1
    /\ todos' = [i \in DOMAIN todos \ {nextId - 1} |-> todos[i]]
    /\ UNCHANGED <<nextId, request, messages, response, toolError,
                   responses, dispatched, llmCalls, apiCalls, lastOp, txn>>

\* the completion call rejects: the handler's catch answers 500
LLMThrows ==
    /\ pc = "awaiting_model"
    /\ llmFailures' = llmFailures + 1
    /\ reply' = [status |-> 500, error |-> "Failed to process message"]
    /\ pc' = "failed"
    /\ clock' = clock + 1
    /\ UNCHANGED <<todos, nextId, request, messages, response, toolError,
                   responses, dispatched, llmCalls, apiCalls, lastOp, txn>>

\* a millisecond passes
Tick ==
    /\ clock < MaxClock
    /\ clock' = clock + 1
    /\ UNCHANGED <<todos, nextId, pc, request, messages, response, reply, toolError,
                   responses, dispatched, llmCalls, llmFailures, apiCalls, lastOp, txn>>

(***************************************************************************)
(* The chat specification: one chat turn against a store that holds no     *)
(* item or one item.                                                       *)
(***************************************************************************)
EmptyTable == [i \in {} |-> 0]

\* the table after createTodo('a') on a new database, at time 0
OneTodoTable == createTodo(EmptyTable, 1, 0, <<"a">>, EmptyObj).todos

NoResponse == [stop_reason |-> "none", content |-> <<>>]

InitChat ==
    /\ pc = "idle"
    /\ request = [message |-> <<>>, conversationHistory |-> <<>>]
    /\ messages = <<>>
    /\ response = NoResponse
    /\ reply = NoReply
    /\ toolError = FALSE
    /\ responses = <<>>
    /\ dispatched = <<>>
    /\ llmCalls = <<>>
    /\ llmFailures = 0

Init ==
    /\ todos \in {EmptyTable, OneTodoTable}
    /\ nextId = Cardinality(DOMAIN todos) + 1
    /\ clock = 0
    /\ InitChat
    /\ apiCalls = 0
    /\ lastOp = [op |-> "none"]
    /\ txn = NoTxn

Next ==
    \/ \E message \in Messages, h \in Histories : ChatRequest(message, h)
    \/ \E resp \in Responses : LLMReturns(resp)
    \/ LLMThrows

Spec == Init /\ [][Next]_vars

\* the chat turn when every completion call that is awaited is answered: the
\* handler resumes after `await anthropic.messages.create(...)`.  The guard
\* Len(dispatched) < MaxToolIters of IterationStep is the environment's side:
\* the LLM asks for a tool at most MaxToolIters times in a turn
SpecLive ==
    Init /\ [][Next]_vars /\ WF_vars(\E resp \in Responses : LLMReturns(resp))

(***************************************************************************)
(* The store specification: TodoServiceImpl called directly, as the REST   *)
(* handlers and the service's tests call it, on a database that already    *)
(* holds some items.                                                       *)
(***************************************************************************)
\* the table after n calls of createTodo('a') on a new database, at time 0
RECURSIVE CreatedTable(_)
CreatedTable(n) ==
    IF n = 0 THEN EmptyTable
    ELSE createTodo(CreatedTable(n - 1), n, 0, <<"a">>, EmptyObj).todos

\* the sequences without repetition over a set of ids
RECURSIVE Injective(_)
Injective(ids) ==
    {<<>>} \cup UNION {{<<i>> \o rest : rest \in Injective(ids \ {i})} : i \in ids}

\* what reorderTodos may be called with: every list without repetition of stored
\* ids, lists naming an id twice, an id that is not stored or a value that
\* cannot be bound, and a non-array
ReorderInputs ==
    {[array |-> TRUE, items |-> ids] :
        ids \in Injective(DOMAIN todos)
                  \cup {<<1, 1>>, <<MaxTodos + 1, 1>>, <<1, NotBindable>>}}
      \cup {[array |-> FALSE]}

CreateInputs ==
    [text : {<<"b">>, <<" ">>}, metadata : {EmptyObj}]

UpdateInputs ==
    [id : 1..MaxTodos, updates : {[priority |-> 1]}]

\* what a call left behind for the caller: a return value or an exception
Outcome(out) ==
    IF out.threw THEN [threw |-> TRUE, error |-> out.error]
    ELSE [threw |-> FALSE, value |-> out.value]

\* a handler runs to completion: none starts while the transaction function of
\* another is on the stack
StoreCall(op, args, out) ==
    /\ ~txn.active
    /\ apiCalls < MaxApiCalls
    /\ apiCalls' = apiCalls + 1
    /\ todos' = out.todos
    /\ lastOp' = [op |-> op, args |-> args, outcome |-> Outcome(out)]
    /\ UNCHANGED <<clock, chatVars, txn>>

CallCreate(in) ==
    LET out == createTodo(todos, nextId, clock, in.text, in.metadata)
    IN  /\ TookId(todos, out) => nextId <= MaxTodos
        /\ nextId' = IF TookId(todos, out) THEN nextId + 1 ELSE nextId
        /\ StoreCall("createTodo", in, out)

CallUpdate(in) ==
    /\ StoreCall("updateTodo", in, updateTodo(todos, clock, in.id, in.updates))
    /\ UNCHANGED nextId

CallDelete(id) ==
    /\ StoreCall("deleteTodo", id, deleteTodo(todos, id))
    /\ UNCHANGED nextId

CallReorder(orderedIds) ==
    /\ StoreCall("reorderTodos", orderedIds, reorderTodos(todos, clock, orderedIds))
    /\ UNCHANGED nextId

InitStore ==
    /\ \E n \in 0..MaxTodos : todos = CreatedTable(n)
    /\ nextId = Cardinality(DOMAIN todos) + 1
    /\ clock = 0
    /\ InitChat
    /\ apiCalls = 0
    /\ lastOp = [op |-> "none"]
    /\ txn = NoTxn

NextStore ==
    \/ \E in \in CreateInputs : CallCreate(in)
    \/ \E in \in UpdateInputs : CallUpdate(in)
    \/ \E id \in 1..MaxTodos : CallDelete(id)
    \/ \E orderedIds \in ReorderInputs : CallReorder(orderedIds)
    \/ Tick

SpecStore == InitStore /\ [][NextStore]_vars

(***************************************************************************)
(* The transaction specification: reorderTodos taken statement by          *)
(* statement (BEGIN, one UPDATE per id, COMMIT or ROLLBACK) while the MCP   *)
(* server process, which opens the same database file, lists the items on  *)
(* its own connection.  Handlers of the web server itself run between      *)
(* transactions only.                                                      *)
(***************************************************************************)
\* a reader that sees the rows an open transaction has written so far
Visible_Dirty(db, tx) == IF tx.active THEN tx.work ELSE db

\* what another connection reads while tx is open: the committed table
Visible(db, tx) == db

\* transaction(orderedIds): the array check passed, BEGIN
TxnBegin(orderedIds) ==
    /\ ~txn.active
    /\ orderedIds.array
    /\ apiCalls < MaxApiCalls
    /\ apiCalls' = apiCalls + 1
    /\ txn' = [active |-> TRUE, ids |-> orderedIds.items, done |-> 0,
               work |-> todos, now |-> clock]
    /\ UNCHANGED <<todos, nextId, clock, chatVars, lastOp>>

\* the next updateStmt.run of the forEach; a throw rolls the transaction back
TxnRun ==
    /\ txn.active
    /\ txn.done < Len(txn.ids)
    /\ LET id == txn.ids[txn.done + 1]
       IN  IF id = NotBindable
           THEN /\ txn' = NoTxn
                /\ lastOp' = [op |-> "reorderTodos",
                              args |-> [array |-> TRUE, items |-> txn.ids],
                              outcome |-> [threw |-> TRUE, error |-> BindError]]
           ELSE /\ txn' = [txn EXCEPT !.work = ReorderRun(@, txn.done, txn.now, id),
                                      !.done = @ + 1]
                /\ UNCHANGED lastOp
    /\ UNCHANGED <<todos, nextId, clock, chatVars, apiCalls>>

\* the transaction function returned: COMMIT
TxnCommit ==
    /\ txn.active
    /\ txn.done = Len(txn.ids)
    /\ todos' = txn.work
    /\ txn' = NoTxn
    /\ lastOp' = [op |-> "reorderTodos",
                  args |-> [array |-> TRUE, items |-> txn.ids],
                  outcome |-> [threw |-> FALSE, value |-> UNDEFINED]]
    /\ UNCHANGED <<nextId, clock, chatVars, apiCalls>>

\* list_todos on the MCP server's connection, at any moment
ListOnOtherConnection(filters) ==
    LET out == getTodos(Visible(todos, txn), filters)
    IN  /\ lastOp' = [op |-> "getTodos", args |-> filters, outcome |-> Outcome(out)]
        /\ UNCHANGED <<todos, nextId, clock, chatVars, apiCalls, txn>>

\* GET /api/todos or the chat's list_todos, in the web server
CallList(filters) ==
    /\ StoreCall("getTodos", filters, getTodos(todos, filters))
    /\ UNCHANGED nextId

\* the reorders of the transaction specification: lists of at most two ids
TxnInputs == {orderedIds \in ReorderInputs :
                orderedIds.array /\ Len(orderedIds.items) <= 2}

NextTxn ==
    \/ \E orderedIds \in TxnInputs : TxnBegin(orderedIds)
    \/ TxnRun
    \/ TxnCommit
    \/ ListOnOtherConnection(EmptyObj)
    \/ CallList(EmptyObj)
    \/ Tick

SpecTxn == InitStore /\ [][NextTxn]_vars

(***************************************************************************)
(* The list specification: the store's methods on a database whose items   *)
(* differ in starred, priority, tags and creation time, as the items of    *)
(* the service's getTodos tests do.                                        *)
(***************************************************************************)
\* the metadata the n-th item was created with
SeedMeta(n) ==
    IF n = 1 THEN [tags |-> <<"work">>]
    ELSE IF n = 2 THEN [starred |-> TRUE, priority |-> 1, tags |-> <<"work", "urgent">>]
    ELSE IF n = 3 THEN [tags |-> <<"personal">>]
    ELSE EmptyObj

\* the first two items were created in one millisecond, the others in the next
SeedTime(n) == IF n <= 2 THEN 0 ELSE 1

\* the table after the first n of these createTodo calls on a new database
RECURSIVE SeedTable(_)
SeedTable(n) ==
    IF n = 0 THEN EmptyTable
    ELSE createTodo(SeedTable(n - 1), n, SeedTime(n), <<"a">>, SeedMeta(n)).todos

ListCreateInputs ==
    [text : {<<"b">>},
     metadata : {EmptyObj, [starred |-> TRUE, priority |-> 1, tags |-> <<"urgent">>]}]

ListUpdateInputs ==
    [id : {1, 2},
     updates : {[completed |-> TRUE], [priority |-> 1],
                [text |-> <<" ", "z">>, starred |-> TRUE]}]

\* the filters of the lists: none, each predicate alone, an empty tags array,
\* two predicates together, a priority the schema rejects, and an empty tags
\* array beside another predicate
ListInputs ==
    {EmptyObj, [starred |-> TRUE], [completed |-> FALSE], [completed |-> TRUE],
     [priority |-> 1], [tags |-> <<"work">>], [tags |-> <<>>],
     [starred |-> TRUE, tags |-> <<"personal", "urgent">>], [priority |-> 9],
     [starred |-> TRUE, tags |-> <<>>]}

InitList ==
    /\ \E n \in 0..MaxTodos : todos = SeedTable(n)
    /\ nextId = Cardinality(DOMAIN todos) + 1
    /\ clock = 1
    /\ InitChat
    /\ apiCalls = 0
    /\ lastOp = [op |-> "none"]
    /\ txn = NoTxn

NextList ==
    \/ \E in \in ListCreateInputs : CallCreate(in)
    \/ \E in \in ListUpdateInputs : CallUpdate(in)
    \/ \E orderedIds \in TxnInputs : CallReorder(orderedIds)
    \/ \E filters \in ListInputs : CallList(filters)

SpecList == InitList /\ [][NextList]_vars

(***************************************************************************)
(* The validation specification: the store's methods called with          *)
(* arguments the schemas accept and arguments they reject, as the         *)
(* service's validation tests call them, on the database of the list      *)
(* specification.                                                          *)
(***************************************************************************)
\* an id that is not a UUID, one that may be stored, one that never is
CheckedIds == {NoId, 1, MaxTodos + 1}

\* a good text, an empty and a blank one; priorities 0, 6 and 3.5
CheckedCreateInputs ==
    [text : {<<"b">>, <<>>, <<" ">>}, metadata : {EmptyObj}]
      \cup [text : {<<"b">>},
            metadata : {[priority |-> 0], [priority |-> 6], [priority |-> Half(3)]}]

CheckedUpdateInputs ==
    [id : CheckedIds,
     updates : {[priority |-> 0], [priority |-> 5], [text |-> <<>>], [text |-> <<" ">>],
                [displayOrder |-> 0]}]

CheckedStarredInputs == [id : CheckedIds, args : {[starred |-> TRUE]}]

CheckedPriorityInputs == [id : CheckedIds, args : {[priority |-> 4], [priority |-> 6]}]

CheckedTagsInputs == [id : CheckedIds, args : {[tags |-> <<"x">>]}]

\* a non-array, a list with an id that is not stored, a list of a stored id
CheckedReorderInputs ==
    {[array |-> FALSE], [array |-> TRUE, items |-> <<MaxTodos + 1>>],
     [array |-> TRUE, items |-> <<1>>]}

CallToggleStarred(in) ==
    /\ StoreCall("toggleStarred", in, toggleStarred(todos, clock, in.id, in.args))
    /\ UNCHANGED nextId

CallSetPriority(in) ==
    /\ StoreCall("setPriority", in, setPriority(todos, clock, in.id, in.args))
    /\ UNCHANGED nextId

CallSetTags(in) ==
    /\ StoreCall("setTags", in, setTags(todos, clock, in.id, in.args))
    /\ UNCHANGED nextId

NextChecked ==
    \/ \E in \in CheckedCreateInputs : CallCreate(in)
    \/ \E in \in CheckedUpdateInputs : CallUpdate(in)
    \/ \E in \in CheckedStarredInputs : CallToggleStarred(in)
    \/ \E in \in CheckedPriorityInputs : CallSetPriority(in)
    \/ \E in \in CheckedTagsInputs : CallSetTags(in)
    \/ \E id \in CheckedIds : CallDelete(id)
    \/ \E orderedIds \in CheckedReorderInputs : CallReorder(orderedIds)
    \/ CallList([priority |-> 9])

SpecChecked == InitList /\ [][NextChecked]_vars

(***************************************************************************)
(* The REST endpoints of the web server.  A handler parses the request,   *)
(* calls the store and answers with a status; its catch block maps the    *)
(* error to a status.  A handler is an operator to                         *)
(*   [status |-> the HTTP status, out |-> the outcome of its try block]   *)
(***************************************************************************)
\* String.prototype.includes on an error message
Includes(message, fragment) == \E i \in DOMAIN message : message[i] = fragment

\* the value of a decimal digit
Digit(c) == CHOOSE d \in 0..9 : ToString(d) = c

\* parseInt of a string of decimal digits
RECURSIVE ParseInt(_)
ParseInt(s) ==
    IF Len(s) = 1 THEN Digit(s[1])
    ELSE 10 * ParseInt(SubSeq(s, 1, Len(s) - 1)) + Digit(s[Len(s)])

\* Schema.parse(req.body) before the store is called
Parsed(issue, t, out) == IF issue # "" THEN Threw(ZodError(issue), t) ELSE out

Answered(status, out) == [status |-> status, out |-> out]

\* CreateTodoRequestSchema.parse
CreateTodoRequestIssue(body) ==
    IF ~Has(body, "text") \/ Len(body.text) < 1 THEN "text"
    ELSE IF ~PriorityOk(body) THEN "priority"
    ELSE ""

\* UpdateTodoRequestSchema.parse
UpdateTodoRequestIssue(body) ==
    IF ~TextMin1Ok(body) THEN "text"
    ELSE IF ~PriorityOk(body) THEN "priority"
    ELSE ""

\* ReorderTodosRequestSchema.parse: orderedIds is an array of UUID strings
ReorderTodosRequestIssue(body) ==
    IF ~Has(body, "orderedIds") THEN "orderedIds"
    ELSE IF ~body.orderedIds.array THEN "orderedIds"
    ELSE IF \E i \in DOMAIN body.orderedIds.items : ~IsUuid(body.orderedIds.items[i])
    THEN "orderedIds"
    ELSE ""

\* the filters GET /api/todos builds from the query string
QueryFilters(query) ==
    [k \in DOMAIN query |->
        IF k = "priority" THEN ParseInt(query[k])
        ELSE IF k \in {"starred", "completed"} THEN query[k] = "true"
        ELSE query[k]]

\* app.get('/api/todos')
getApiTodos(t, query) ==
    LET out == getTodos(t, QueryFilters(query))
    IN  Answered(IF out.threw THEN 500 ELSE 200, out)

\* the catch block of app.post('/api/todos')
CreateErrorStatus(error) ==
    IF error.name = "ZodError" THEN 400
    ELSE IF Includes(error.message, "required") \/ Includes(error.message, "empty")
    THEN 400
    ELSE 500

\* app.post('/api/todos')
postApiTodos(t, id, now, body) ==
    LET metadata == Pick(body, {"starred", "priority", "tags", "dueDate"})
        out == Parsed(CreateTodoRequestIssue(body), t,
                      createTodo(t, id, now, body.text, metadata))
    IN  Answered(IF out.threw THEN CreateErrorStatus(out.error) ELSE 201, out)

\* the catch block of app.patch: every error answered with 500
UpdateErrorStatus_Always500(error) == 500

\* the catch block of app.patch('/api/todos/:id')
UpdateErrorStatus(error) ==
    IF Includes(error.message, "not found") THEN 404
    ELSE IF error.name = "ZodError" THEN 400
    ELSE 500

\* app.patch('/api/todos/:id')
patchApiTodo(t, now, id, body) ==
    LET updates == Pick(body, TodoUpdateKeys)
        out == Parsed(UpdateTodoRequestIssue(body), t, updateTodo(t, now, id, updates))
    IN  Answered(IF out.threw THEN UpdateErrorStatus(out.error) ELSE 200, out)

\* app.delete('/api/todos/:id')
deleteApiTodo(t, id) ==
    LET out == deleteTodo(t, id)
    IN  Answered(IF out.threw THEN 500 ELSE IF out.value THEN 204 ELSE 404, out)

\* the catch block of app.post reorder: every error answered with 500
ReorderErrorStatus_Always500(error) == 500

\* the catch block of app.post('/api/todos/reorder')
ReorderErrorStatus(error) == IF error.name = "ZodError" THEN 400 ELSE 500

\* app.post('/api/todos/reorder')
postApiReorder(t, now, body) ==
    LET out == Parsed(ReorderTodosRequestIssue(body), t,
                      reorderTodos(t, now, body.orderedIds))
    IN  Answered(IF out.threw THEN ReorderErrorStatus(out.error) ELSE 200, out)

(***************************************************************************)
(* The REST specification: requests to the five endpoints, well-formed    *)
(* and malformed, on the database of the list specification.               *)
(***************************************************************************)
RestQueries ==
    {EmptyObj, [starred |-> "true"], [priority |-> <<"1">>], [priority |-> <<"9">>]}

RestCreateBodies ==
    {[text |-> <<"b">>], EmptyObj, [text |-> <<>>], [text |-> <<" ">>],
     [text |-> <<"b">>, priority |-> 6]}

RestUpdateBodies ==
    {[priority |-> 5], [priority |-> 0], [text |-> <<>>], [text |-> <<" ">>]}

RestReorderBodies ==
    {EmptyObj, [orderedIds |-> [array |-> FALSE]]}
      \cup {[orderedIds |-> [array |-> TRUE, items |-> ids]] :
              ids \in {<<NoId, 1>>, <<1, NoId>>, <<1>>, <<2, 1>>}}

\* a request handled to its response
RestCall(op, args, answer) ==
    /\ ~txn.active
    /\ apiCalls < MaxApiCalls
    /\ apiCalls' = apiCalls + 1
    /\ todos' = answer.out.todos
    /\ lastOp' = [op |-> op, args |-> args, outcome |-> Outcome(answer.out),
                  status |-> answer.status]
    /\ UNCHANGED <<clock, chatVars, txn>>

GetTodos(query) ==
    /\ RestCall("GET /api/todos", query, getApiTodos(todos, query))
    /\ UNCHANGED nextId

PostTodos(body) ==
    LET answer == postApiTodos(todos, nextId, clock, body)
    IN  /\ TookId(todos, answer.out) => nextId <= MaxTodos
        /\ nextId' = IF TookId(todos, answer.out) THEN nextId + 1 ELSE nextId
        /\ RestCall("POST /api/todos", body, answer)

PatchTodo(id, body) ==
    /\ RestCall("PATCH /api/todos/:id", [id |-> id, body |-> body],
                patchApiTodo(todos, clock, id, body))
    /\ UNCHANGED nextId

DeleteTodo(id) ==
    /\ RestCall("DELETE /api/todos/:id", [id |-> id], deleteApiTodo(todos, id))
    /\ UNCHANGED nextId

PostReorder(body) ==
    /\ RestCall("POST /api/todos/reorder", body, postApiReorder(todos, clock, body))
    /\ UNCHANGED nextId

NextRest ==
    \/ \E query \in RestQueries : GetTodos(query)
    \/ \E body \in RestCreateBodies : PostTodos(body)
    \/ \E id \in CheckedIds, body \in RestUpdateBodies : PatchTodo(id, body)
    \/ \E id \in CheckedIds : DeleteTodo(id)
    \/ \E body \in RestReorderBodies : PostReorder(body)

SpecRest == InitList /\ [][NextRest]_vars

\* the store's methods and the REST endpoints together
NextApi == NextChecked \/ NextRest

SpecApi == InitList /\ [][NextApi]_vars

(***************************************************************************)
(* The interleaving specification: one chat turn and REST requests on the  *)
(* same store.  Node runs one handler at a time and the chat handler       *)
(* yields only at its await of the completion, so a REST request is        *)
(* handled whole before the turn, after it, or while it waits for the LLM.  *)
(***************************************************************************)
ToggleOne == Call("toggle_starred", [id |-> 1, starred |-> TRUE])
PriorityOne == Call("set_priority", [id |-> 1, priority |-> 1])

\* the completions of this specification: one tool call, or a final text
MixedResponses ==
    [stop_reason : {"tool_use"},
     content : {<<ToolUse("toolu_1", c)>> :
                  c \in {CreateOk, UpdateOne, DeleteOne, ToggleOne, PriorityOne}}]
      \cup {[stop_reason |-> "end_turn", content |-> <<TextBlock>>]}

NextMixed ==
    \/ ChatRequest(<<"h", "e", "y">>, <<>>)
    \/ \E resp \in MixedResponses : LLMReturns(resp)
    \/ LLMThrows
    \/ PostTodos([text |-> <<"b">>])
    \/ PatchTodo(1, [completed |-> FALSE])
    \/ \E id \in {1, 2} : DeleteTodo(id)

SpecMixed == Init /\ [][NextMixed]_vars

(***************************************************************************)
(* Properties of the chat turn.                                            *)
(***************************************************************************)
\* the response holds a tool_use block
HasToolUse(resp) == \E i \in 1..Len(resp.content) : resp.content[i].type = "tool_use"

\* the response asks for a tool: the stop reason says so and a tool_use block is there
AsksForTool(resp) == resp.stop_reason = "tool_use" /\ HasToolUse(resp)

\* the first tool_use block of a response that holds one
FirstToolUse(resp) ==
    resp.content[CHOOSE i \in 1..Len(resp.content) :
                   /\ resp.content[i].type = "tool_use"
                   /\ \A j \in 1..(i - 1) : resp.content[j].type # "tool_use"]

\* the text of the first text block of a response, 'No response' without one
FirstText(resp) ==
    IF \E i \in 1..Len(resp.content) : resp.content[i].type = "text"
    THEN resp.content[CHOOSE i \in 1..Len(resp.content) :
                        /\ resp.content[i].type = "text"
                        /\ \A j \in 1..(i - 1) : resp.content[j].type # "text"].text
    ELSE "No response"

\* the number of responses of the turn that asked for a tool
ToolUseCount == Cardinality({i \in 1..Len(responses) : AsksForTool(responses[i])})

\* the tool_result block of a message, when the message is one carrying a tool result
IsToolResultFor(m, toolUseId) ==
    /\ m.role = "user"
    /\ Len(m.content) = 1
    /\ m.content[1].type = "tool_result"
    /\ m.content[1].tool_use_id = toolUseId

\* the tool call failed inside the Store: a Store method was invoked and threw
StoreFailure(d) == d.threw /\ d.called # "none"

\* the turn was not aborted by anything but a failed completion call
NotAborted == llmFailures = 0 => (pc # "failed" /\ reply.status # 500)

\* the messages handed to the completion call that followed dispatch i end with the
\* assistant's response i and the tool result of dispatch i
FedBack(i) ==
    /\ Len(llmCalls) >= i + 1
    /\ Len(llmCalls[i + 1]) = Len(llmCalls[i]) + 2
    /\ SubSeq(llmCalls[i + 1], 1, Len(llmCalls[i])) = llmCalls[i]
    /\ LET m == llmCalls[i + 1]
           n == Len(llmCalls[i])
       IN  /\ m[n + 1].role = "assistant"
           /\ m[n + 1].content = responses[i].content
           /\ IsToolResultFor(m[n + 2], dispatched[i].toolUse.id)

\* the tool_result block handed to the LLM after dispatch i
ToolResultOf(i) == llmCalls[i + 1][Len(llmCalls[i + 1])].content[1]

\* C1: a turn the LLM answers with k tool_use responses and then a terminal one
\* dispatches exactly k tool calls and returns the final text with a history that
\* is the caller's history, the user message, k pairs (assistant response, tool
\* result) and the final assistant response: 2k + 2 appended messages.
C1_ToolLoopHistory ==
    (pc = "done" /\ reply.status = 200) =>
      LET k == ToolUseCount
          n == Len(request.conversationHistory)
          h == reply.conversationHistory
      IN  /\ Len(responses) = k + 1
          /\ ~AsksForTool(responses[k + 1])
          /\ Len(dispatched) = k
          /\ reply.response = FirstText(responses[k + 1])
          /\ Len(h) = n + 2 * k + 2
          /\ SubSeq(h, 1, n) = request.conversationHistory
          /\ h[n + 1].role = "user"
          /\ h[n + 1].content = request.message
          /\ \A i \in 1..k :
               /\ h[n + 2 * i].role = "assistant"
               /\ h[n + 2 * i].content = responses[i].content
               /\ IsToolResultFor(h[n + 2 * i + 1], dispatched[i].toolUse.id)
          /\ h[n + 2 * k + 2].role = "assistant"
          /\ h[n + 2 * k + 2].content = responses[k + 1].content

\* the spec's example: two tool_use responses, then the final text, on a history
C1_Witness ==
    /\ pc = "done"
    /\ reply.status = 200
    /\ ToolUseCount = 2
    /\ Len(request.conversationHistory) = 2
    /\ Len(reply.conversationHistory) = 8
    /\ reply.response = "ok"

\* C2: a tool call that fails inside the Store does not abort the turn: its
\* failure is appended to the history as a tool-result message holding the error
\* text, and the LLM is called again with that history.
C2_StoreFailureAbsorbed ==
    \A i \in 1..Len(dispatched) :
      StoreFailure(dispatched[i]) =>
        /\ FedBack(i)
        /\ ToolResultOf(i).content[1] = "Error:"
        /\ NotAborted

\* update_todo on an id that is not stored failed, and the LLM was asked again
C2_Witness ==
    /\ todos = EmptyTable
    /\ Len(dispatched) = 1
    /\ dispatched[1].toolUse.name = "update_todo"
    /\ dispatched[1].called = "updateTodo"
    /\ dispatched[1].threw
    /\ Len(llmCalls) = 2
    /\ pc = "awaiting_model"
\* the tool_result block carries an error flag that is set
ErrorFlagged(block) ==
    \/ Has(block, "is_error") /\ block.is_error
    \/ Has(block, "isError") /\ block.isError

\* C3: whenever a tool call raises an exception from the Store, the tool result
\* handed back to the LLM is error-flagged (isError = true) and has the error
\* text as its content.
C3_ErrorFlagged ==
    \A i \in 1..Len(dispatched) :
      (StoreFailure(dispatched[i]) /\ Len(llmCalls) >= i + 1) =>
        /\ ToolResultOf(i).content[1] = "Error:"
        /\ ErrorFlagged(ToolResultOf(i))

\* C4: when a completion call fails, the first or a later one, the turn ends with
\* an error for the caller (status 500, no history); the failed call is not
\* retried, and no completion call and no tool dispatch follows it.
C4_UpstreamFailureTerminal ==
    llmFailures > 0 =>
      /\ pc = "failed"
      /\ reply.status = 500
      /\ ~Has(reply, "conversationHistory")
      /\ llmFailures = 1
      /\ Len(llmCalls) = Len(responses) + 1
      /\ Len(dispatched) = Len(responses)
      /\ \A i \in 1..Len(responses) : AsksForTool(responses[i])

\* the completion call that followed a tool result failed
C4_Witness ==
    /\ llmFailures = 1
    /\ pc = "failed"
    /\ Len(dispatched) = 1
    /\ Len(llmCalls) = 2

\* C5: an iteration dispatches at most one tool call, the first tool_use block of
\* the response; the other tool_use blocks of that response are never executed.
C5_FirstToolUseOnly ==
    /\ Len(dispatched) <= Len(responses)
    /\ \A i \in 1..Len(dispatched) :
         /\ dispatched[i].response = i
         /\ AsksForTool(responses[i])
         /\ dispatched[i].toolUse = FirstToolUse(responses[i])

\* a response with two tool_use blocks was served: the create was executed, the
\* delete that followed it in the response was not
C5_Witness ==
    /\ Len(dispatched) = 1
    /\ Len(responses[1].content) = 2
    /\ responses[1].content[1].type = "tool_use"
    /\ responses[1].content[2].type = "tool_use"
    /\ responses[1].content[1].name = "create_todo"
    /\ responses[1].content[2].name = "delete_todo"
    /\ DOMAIN todos = {1, 2}

\* C6: an iteration appends exactly two messages, in this order: the assistant
\* message with the raw response content (the tool_use blocks that were not
\* executed included), then a user message whose tool_result names the id of the
\* tool_use block that was executed.
C6_TwoMessagesPerIteration ==
    /\ \A i \in 1..Len(dispatched) : FedBack(i)
    /\ pc = "awaiting_model" =>
         /\ messages = llmCalls[Len(llmCalls)]
         /\ Len(messages) = Len(request.conversationHistory) + 1 + 2 * Len(dispatched)

\* two iterations ran, the first on a response with a tool_use block that was not
\* executed
C6_Witness ==
    /\ Len(dispatched) = 2
    /\ Len(llmCalls) = 3
    /\ Len(responses[1].content) = 2
    /\ responses[1].content[2].type = "tool_use"
    /\ responses[1].content[2].id = "toolu_2"
    /\ ToolResultOf(1).tool_use_id = "toolu_1"

\* C7: a response whose stop reason is tool_use but that holds no tool_use block
\* ends the loop at once: nothing is dispatched for it, no completion call
\* follows, and the turn returns normally with it as the final assistant message.
C7_NoToolUseBlockBreaks ==
    \A i \in 1..Len(responses) :
      (responses[i].stop_reason = "tool_use" /\ ~HasToolUse(responses[i])) =>
        /\ i = Len(responses)
        /\ Len(dispatched) = i - 1
        /\ Len(llmCalls) = i
        /\ pc = "done"
        /\ reply.status = 200
        /\ Len(reply.conversationHistory) = Len(messages) + 1
        /\ reply.conversationHistory[Len(messages) + 1].role = "assistant"
        /\ reply.conversationHistory[Len(messages) + 1].content = responses[i].content

\* after one served tool call the LLM answers tool_use without a tool_use block
C7_Witness ==
    /\ Len(responses) = 2
    /\ responses[2].stop_reason = "tool_use"
    /\ ~HasToolUse(responses[2])
    /\ Len(dispatched) = 1
    /\ pc = "done"

\* C8: a tool call whose name is not a registered tool performs no Store
\* operation and is surfaced as a tool-result error; the turn goes on.
C8_UnknownToolAbsorbed ==
    \A i \in 1..Len(dispatched) :
      dispatched[i].toolUse.name \notin ToolNames =>
        /\ dispatched[i].called = "none"
        /\ ~dispatched[i].changed
        /\ dispatched[i].threw
        /\ FedBack(i)
        /\ ToolResultOf(i).content = <<"Error:", "Unknown tool:", dispatched[i].toolUse.name>>
        /\ NotAborted

\* an unknown tool was asked for on a store that holds an item, and the turn
\* ended normally afterwards
C8_Witness ==
    /\ Len(dispatched) = 1
    /\ dispatched[1].toolUse.name = "bogus_tool"
    /\ DOMAIN todos = {1}
    /\ pc = "done"
    /\ reply.status = 200

\* the required keys of each tool's input
RequiredArgs(name) ==
    CASE name = "create_todo" -> {"text"}
      [] name = "list_todos" -> {}
      [] name = "update_todo" -> {"id"}
      [] name = "delete_todo" -> {"id"}
      [] name = "toggle_starred" -> {"id", "starred"}
      [] name = "set_priority" -> {"id", "priority"}

\* the input has the shape the tool declares
ArgsValid(name, input) ==
    /\ RequiredArgs(name) \subseteq DOMAIN input
    /\ PriorityOk(input)
    /\ TextMin1Ok(input)
    /\ Has(input, "id") => IsUuid(input.id)

\* C9: a known tool called with invalid or missing required arguments is rejected
\* by the dispatcher's argument-shape check before any Store method is invoked.
C9_ArgsCheckedBeforeStore ==
    \A i \in 1..Len(dispatched) :
      (dispatched[i].toolUse.name \in ToolNames
         /\ ~ArgsValid(dispatched[i].toolUse.name, dispatched[i].toolUse.input)) =>
        /\ dispatched[i].called = "none"
        /\ dispatched[i].threw
        /\ ~dispatched[i].changed

(***************************************************************************)
(* Properties of the store.                                                *)
(***************************************************************************)
\* no id occurs twice in the list
Distinct(ids) == \A i, j \in 1..Len(ids) : ids[i] = ids[j] => i = j

\* the last call was reorderTodos with a list of distinct ids of stored items
ReorderedStored ==
    /\ lastOp.op = "reorderTodos"
    /\ lastOp.args.array
    /\ Distinct(lastOp.args.items)
    /\ \A i \in 1..Len(lastOp.args.items) : lastOp.args.items[i] \in DOMAIN todos

\* C10: after reorder(orderedIds) on a list of distinct ids of stored items, the
\* item at position i of the list has displayOrder = i (0-based).
C10_ReorderAssignsIndex ==
    ReorderedStored =>
      \A i \in 1..Len(lastOp.args.items) :
        /\ todos[lastOp.args.items[i]].displayOrder = i - 1
        /\ rowToTodo(todos[lastOp.args.items[i]]).displayOrder = i - 1

\* the spec's example: three items, reorder([C, A, B])
C10_Witness ==
    /\ ReorderedStored
    /\ lastOp.args.items = <<3, 1, 2>>
    /\ ~lastOp.outcome.threw
    /\ todos[3].displayOrder = 0
    /\ todos[1].displayOrder = 1
    /\ todos[2].displayOrder = 2

\* the ids a list names
Named(ids) == {ids[i] : i \in 1..Len(ids)}

\* this step is a call of reorderTodos
Reordering == apiCalls' = apiCalls + 1 /\ lastOp'.op = "reorderTodos"

\* C11: reorder(orderedIds) leaves every item whose id is not in orderedIds
\* untouched: its displayOrder and every other field keep the values they had
\* before the call (and no item appears or disappears).
C11_ReorderFrame ==
    [][Reordering =>
         /\ DOMAIN todos' = DOMAIN todos
         /\ \A id \in DOMAIN todos :
               (lastOp'.args.array => id \notin Named(lastOp'.args.items)) =>
                  /\ todos'[id] = todos[id]
                  /\ rowToTodo(todos'[id]) = rowToTodo(todos[id])]_vars

\* the test's case: three items, reorder([id2, id1]) a millisecond after they
\* were created; id3 keeps its creation-time displayOrder and updatedAt
C11_Witness ==
    /\ lastOp.op = "reorderTodos"
    /\ lastOp.args.array
    /\ lastOp.args.items = <<2, 1>>
    /\ DOMAIN todos = {1, 2, 3}
    /\ todos[2].displayOrder = 0 /\ todos[2].updatedAt = 1
    /\ todos[1].displayOrder = 1 /\ todos[1].updatedAt = 1
    /\ todos[3].displayOrder = 3 /\ todos[3].updatedAt = 0

\* this step is a list operation
Listing == lastOp'.op = "getTodos" /\ (lastOp' # lastOp \/ apiCalls' # apiCalls)

\* the table after every UPDATE of the open transaction
AllApplied == reorderTodos(todos, txn.now, [array |-> TRUE, items |-> txn.ids]).todos

\* C12: the displayOrder updates of one reorder call take effect all or none: a
\* list operation, whenever it runs, returns what the table before the reorder or
\* the table after the whole reorder gives, never a table in which only some of
\* the ids have their new displayOrder; and the table itself goes from the one to
\* the other in one step, or stays.
C12_ReorderAtomic ==
    [][/\ (Listing /\ txn.active) =>
            lastOp'.outcome \in {Outcome(getTodos(todos, lastOp'.args)),
                                 Outcome(getTodos(AllApplied, lastOp'.args))}
       /\ (Listing /\ ~txn.active) =>
            lastOp'.outcome = Outcome(getTodos(todos, lastOp'.args))
       /\ txn.active => todos' \in {todos, AllApplied}]_vars

\* a list that ran after the first of two UPDATEs and before the COMMIT, and
\* shows the three items in their order of before the reorder
C12_Witness ==
    /\ txn.active
    /\ txn.ids = <<3, 1>>
    /\ txn.done = 1
    /\ txn.work # todos
    /\ lastOp.op = "getTodos"
    /\ lastOp.args = EmptyObj
    /\ Len(lastOp.outcome.value) = 3
    /\ \A i \in 1..3 : lastOp.outcome.value[i].id = i

\* the displayOrder values of the stored items a list names
NamedOrders(ids) == {todos[id].displayOrder : id \in Named(ids) \cap DOMAIN todos}

\* C13 as stated: immediately after any reorder call with a list of n ids, the
\* displayOrder values of the items named in the list are exactly 0..n-1.
C13_AnyListContiguous ==
    (lastOp.op = "reorderTodos" /\ lastOp.args.array /\ ~lastOp.outcome.threw) =>
        NamedOrders(lastOp.args.items) = 0..(Len(lastOp.args.items) - 1)

\* C13 amended: immediately after a reorder call with a list of n distinct ids of
\* stored items, the displayOrder values of the items named in the list are
\* exactly 0..n-1, also after any sequence of successive reorders.
C13_DistinctStoredContiguous ==
    ReorderedStored =>
        /\ NamedOrders(lastOp.args.items) = 0..(Len(lastOp.args.items) - 1)
        /\ Cardinality(Named(lastOp.args.items)) = Len(lastOp.args.items)

\* two successive reorders: the second names items 1 and 3, and item 2 still has
\* the displayOrder 1 that the first reorder gave it (it was created with 2)
C13_Witness ==
    /\ ReorderedStored
    /\ apiCalls = 2
    /\ lastOp.args.items = <<1, 3>>
    /\ DOMAIN todos = {1, 2, 3}
    /\ todos[2].displayOrder = 1
    /\ NamedOrders(lastOp.args.items) = {0, 1}

\* this step is a call of createTodo that returned the new item
Created ==
    /\ apiCalls' = apiCalls + 1
    /\ lastOp'.op = "createTodo"
    /\ ~lastOp'.outcome.threw

\* C14: create on a non-empty store gives the new item displayOrder = (the
\* maximum displayOrder over all items stored at the call) + 1, whatever
\* creates, deletes, updates and reorders came before.
C14_CreateMaxPlusOne ==
    [][(Created /\ DOMAIN todos # {}) =>
         LET new == lastOp'.outcome.value
         IN  /\ new.id \notin DOMAIN todos
             /\ \A id \in DOMAIN todos : todos[id].displayOrder < new.displayOrder
             /\ \E id \in DOMAIN todos : todos[id].displayOrder + 1 = new.displayOrder
             /\ todos'[new.id].displayOrder = new.displayOrder]_vars

\* a create after reorder([2, 1]) of two items: the new item gets 2, not 3
C14_Witness ==
    /\ lastOp.op = "createTodo"
    /\ ~lastOp.outcome.threw
    /\ lastOp.outcome.value.id = 3
    /\ lastOp.outcome.value.displayOrder = 2
    /\ DOMAIN todos = {1, 2, 3}
    /\ todos[2].displayOrder = 0
    /\ todos[1].displayOrder = 1

\* C15 as stated: create on an empty store assigns displayOrder 0 to the new
\* item, so that items created in a row on an empty store have displayOrder
\* 0, 1, 2.
C15_FirstCreateZero ==
    [][(Created /\ DOMAIN todos = {}) =>
          /\ lastOp'.outcome.value.displayOrder = 0
          /\ \A n \in 1..MaxTodos : CreatedTable(MaxTodos)[n].displayOrder = n - 1]_vars

\* C15 amended: create on an empty store assigns displayOrder 1 to the new
\* item, so that items created in a row on an empty store have displayOrder
\* 1, 2, 3.
C15_FirstCreateOne ==
    [][(Created /\ DOMAIN todos = {}) =>
          /\ lastOp'.outcome.value.displayOrder = 1
          /\ todos'[lastOp'.outcome.value.id].displayOrder = 1
          /\ \A n \in 1..MaxTodos : CreatedTable(MaxTodos)[n].displayOrder = n]_vars

\* two creates on an empty store: the items have displayOrder 1 and 2
C15_Witness ==
    /\ lastOp.op = "createTodo"
    /\ ~lastOp.outcome.threw
    /\ apiCalls = 2
    /\ DOMAIN todos = {1, 2}
    /\ todos[1].displayOrder = 1
    /\ todos[2].displayOrder = 2
    /\ lastOp.outcome.value.id = 2

(***************************************************************************)
(* Properties of the listing.                                              *)
(***************************************************************************)
\* the last call was a list that returned
Listed == lastOp.op = "getTodos" /\ ~lastOp.outcome.threw

\* item a may stand before item b in a listing
InOrder(a, b) ==
    \/ a.displayOrder < b.displayOrder
    \/ /\ a.displayOrder = b.displayOrder
       /\ a.priority < b.priority
    \/ /\ a.displayOrder = b.displayOrder
       /\ a.priority = b.priority
       /\ a.createdAt >= b.createdAt

\* C16: list returns the items sorted by displayOrder ascending, ties broken by
\* priority ascending, remaining ties broken by createdAt descending, in every
\* reachable store state.
C16_ListSorted ==
    Listed =>
        \A i, j \in 1..Len(lastOp.outcome.value) :
            i < j => InOrder(lastOp.outcome.value[i], lastOp.outcome.value[j])

\* after reorder([2, 3]) items 3 and 1 share displayOrder 1 and priority 3: the
\* unfiltered listing is 2, 3, 1, the newer item 3 before the older item 1
C16_Witness ==
    /\ Listed
    /\ lastOp.args = EmptyObj
    /\ Len(lastOp.outcome.value) = 3
    /\ lastOp.outcome.value[1].id = 2
    /\ lastOp.outcome.value[2].id = 3
    /\ lastOp.outcome.value[3].id = 1
    /\ lastOp.outcome.value[2].displayOrder = lastOp.outcome.value[3].displayOrder
    /\ lastOp.outcome.value[2].priority = lastOp.outcome.value[3].priority
    /\ lastOp.outcome.value[2].createdAt > lastOp.outcome.value[3].createdAt

\* the ids of a listing, in its order
IdsOf(listing) == [i \in 1..Len(listing) |-> listing[i].id]

\* the ids go up: the items stand in the order they were created in
Ascending(ids) == \A i, j \in 1..Len(ids) : i < j => ids[i] < ids[j]

\* the unfiltered listing of a table
Unfiltered(t) == getTodos(t, EmptyObj).value

\* C17: a freshly created item has a displayOrder strictly greater than that of
\* every other stored item and is last in the unfiltered listing; a create keeps
\* a listing that is in creation order in creation order, and items that were
\* only created are listed in creation order.
C17_CreatedIsLast ==
    [][Created =>
         LET new == lastOp'.outcome.value
         IN  /\ \A id \in DOMAIN todos' \ {new.id} :
                   todos'[id].displayOrder < new.displayOrder
             /\ Unfiltered(todos')[Cardinality(DOMAIN todos')].id = new.id
             /\ Ascending(IdsOf(Unfiltered(todos))) => Ascending(IdsOf(Unfiltered(todos')))
             /\ Ascending(IdsOf(Unfiltered(CreatedTable(MaxTodos))))]_vars

\* one stored item and two creates after it: the listing is 1, 2, 3
C17_Witness ==
    /\ lastOp.op = "createTodo"
    /\ ~lastOp.outcome.threw
    /\ apiCalls = 2
    /\ lastOp.outcome.value.id = 3
    /\ IdsOf(Unfiltered(todos)) = <<1, 2, 3>>
    /\ todos[3].displayOrder = 3

\* C18: list does not modify the store, and two list calls with the same filters
\* and no mutation in between return the same items in the same order.
C18_ListReadOnly ==
    [][Listing =>
         /\ todos' = todos
         /\ nextId' = nextId
         /\ (lastOp.op = "getTodos" /\ lastOp.args = lastOp'.args) =>
                lastOp'.outcome = lastOp.outcome]_vars

\* the second of two unfiltered lists of three items whose displayOrder is not
\* their position
C18_Witness ==
    /\ Listed
    /\ apiCalls = 2
    /\ lastOp.args = EmptyObj
    /\ todos = SeedTable(3)
    /\ IdsOf(lastOp.outcome.value) = <<1, 2, 3>>
    /\ lastOp.outcome.value[1].displayOrder = 1

\* the stored item as the service returns it
Stored(id) == rowToTodo(todos[id])

\* the item has at least one of the tags
HasAnyTag(todo, tags) ==
    \E i \in 1..Len(tags) : \E j \in 1..Len(todo.tags) : tags[i] = todo.tags[j]

\* the item satisfies every supplied predicate among starred, completed, priority
SatisfiesFlags(todo, f) ==
    /\ Has(f, "starred") => todo.starred = f.starred
    /\ Has(f, "completed") => todo.completed = f.completed
    /\ Has(f, "priority") => todo.priority = f.priority

\* the listing holds exactly the stored items of the set, each once
ReturnsExactly(listing, ids) ==
    /\ {listing[i].id : i \in 1..Len(listing)} = ids
    /\ Len(listing) = Cardinality(ids)
    /\ \A i \in 1..Len(listing) : listing[i] = Stored(listing[i].id)

\* C19 as stated: list(filters) returns exactly the stored items that satisfy
\* every supplied predicate among starred, completed and exact priority and, when
\* a tags filter is supplied, have at least one of the requested tags.
C19_FiltersAnySuppliedTags ==
    Listed =>
        ReturnsExactly(lastOp.outcome.value,
            {id \in DOMAIN todos :
                /\ SatisfiesFlags(Stored(id), lastOp.args)
                /\ Has(lastOp.args, "tags") => HasAnyTag(Stored(id), lastOp.args.tags)})

\* C19 amended: the same, the tags predicate applying when a non-empty tags
\* filter is supplied; an empty tags filter excludes nothing.
C19_FiltersNonEmptyTags ==
    Listed =>
        ReturnsExactly(lastOp.outcome.value,
            {id \in DOMAIN todos :
                /\ SatisfiesFlags(Stored(id), lastOp.args)
                /\ (Has(lastOp.args, "tags") /\ Len(lastOp.args.tags) > 0) =>
                        HasAnyTag(Stored(id), lastOp.args.tags)})

\* the spec's example: items tagged work, work+urgent and personal; the filter
\* tags: [work] returns exactly the first two
C19_Witness ==
    /\ Listed
    /\ lastOp.args = [tags |-> <<"work">>]
    /\ DOMAIN todos = {1, 2, 3}
    /\ Stored(1).tags = <<"work">>
    /\ Stored(2).tags = <<"work", "urgent">>
    /\ Stored(3).tags = <<"personal">>
    /\ IdsOf(lastOp.outcome.value) = <<1, 2>>

(***************************************************************************)
(* Properties of update.                                                   *)
(***************************************************************************)
\* this step is a call of updateTodo on a stored item that returned
Updated ==
    /\ apiCalls' = apiCalls + 1
    /\ lastOp'.op = "updateTodo"
    /\ ~lastOp'.outcome.threw
    /\ lastOp'.args.id \in DOMAIN todos

\* the fields of an item but updatedAt
TodoFields ==
    {"id", "text", "completed", "starred", "priority", "tags", "dueDate",
     "displayOrder", "createdAt"}

\* C20: update(id, fields) on a stored item changes only the supplied fields and
\* updatedAt: every omitted field keeps its previous value, in the table and in
\* the item returned, and no other item is changed.
C20_UpdateFrame ==
    [][Updated =>
         LET id == lastOp'.args.id
             omitted == TodoFields \ DOMAIN lastOp'.args.updates
         IN  /\ DOMAIN todos' = DOMAIN todos
             /\ \A other \in DOMAIN todos \ {id} : todos'[other] = todos[other]
             /\ \A f \in omitted :
                   /\ todos'[id][f] = todos[id][f]
                   /\ lastOp'.outcome.value[f] = Stored(id)[f]]_vars

\* update(2, {completed: true}) on the starred item 2 of priority 1 with two
\* tags: it is completed now and still starred, of priority 1, with its tags
C20_Witness ==
    /\ lastOp.op = "updateTodo"
    /\ ~lastOp.outcome.threw
    /\ lastOp.args = [id |-> 2, updates |-> [completed |-> TRUE]]
    /\ 2 \in DOMAIN todos
    /\ Stored(2).completed
    /\ Stored(2).starred
    /\ Stored(2).priority = 1
    /\ Stored(2).tags = <<"work", "urgent">>

(***************************************************************************)
(* Updates of an item that is not stored.                                  *)
(***************************************************************************)
UpdateOps == {"updateTodo", "toggleStarred", "setPriority", "setTags"}

PatchOp == "PATCH /api/todos/:id"

\* the fields an update call or request carries
FieldsOf(op) ==
    IF op.op = PatchOp THEN op.args.body
    ELSE IF op.op = "updateTodo" THEN op.args.updates
    ELSE op.args.args

\* the fields are within the documented ranges
FieldsInRange(u) ==
    /\ Has(u, "text") => Len(u.text) >= 1
    /\ Has(u, "priority") => u.priority \in 1..5

\* a step that is an update call or request for an id that names no stored item
UpdatingMissing ==
    /\ apiCalls' = apiCalls + 1
    /\ lastOp'.op \in UpdateOps \cup {PatchOp}
    /\ lastOp'.args.id \notin DOMAIN todos

NotFoundError(id) == JsError(<<"Todo", ToString(id), "not found">>)

Deleting == apiCalls' = apiCalls + 1 /\ lastOp'.op = "deleteTodo"

\* the table without the item id
Without(t, id) == [i \in DOMAIN t \ {id} |-> t[i]]

\* the call returned v
ReturnedValue(op, v) == ~op.outcome.threw /\ op.outcome.value = v

\* C22 as stated: deleteTodo returns true exactly when the item was stored and
\* is now removed, returns false when no such item exists, and does not throw
\* for any id that is missing from the store
C22_DeleteNeverThrowsForMissing ==
    [][Deleting =>
         LET id == lastOp'.args
         IN  IF id \in DOMAIN todos
             THEN ReturnedValue(lastOp', TRUE) /\ todos' = Without(todos, id)
             ELSE ReturnedValue(lastOp', FALSE) /\ todos' = todos]_vars

\* C22: deleteTodo returns true exactly when the item was stored and is now
\* removed, returns false and does not throw for a well-formed id that names no
\* stored item, and throws a validation error for an id that is not well-formed
C22_DeleteWellFormedNeverThrows ==
    [][Deleting =>
         LET id == lastOp'.args
         IN  IF id \in DOMAIN todos
             THEN ReturnedValue(lastOp', TRUE) /\ todos' = Without(todos, id)
             ELSE IF id >= 1
             THEN ReturnedValue(lastOp', FALSE) /\ todos' = todos
             ELSE /\ lastOp'.outcome.threw
                  /\ lastOp'.outcome.error.name = "ZodError"
                  /\ todos' = todos]_vars

C22_Witness ==
    /\ lastOp.op = "deleteTodo"
    /\ lastOp.args = MaxTodos + 1
    /\ ReturnedValue(lastOp, FALSE)
    /\ DOMAIN todos = {1, 2}

(***************************************************************************)
(* Creating with a text or a priority the store rejects.                   *)
(***************************************************************************)
\* empty or white space only
Blank(text) == \A i \in DOMAIN text : IsSpace(text[i])

\* a priority is supplied and is not an integer in 1..5
BadPriority(obj) == Has(obj, "priority") /\ obj.priority \notin MinPriority..MaxPriority

CreatingRejected ==
    /\ apiCalls' = apiCalls + 1
    /\ lastOp'.op = "createTodo"
    /\ Blank(lastOp'.args.text) \/ BadPriority(lastOp'.args.metadata)

\* C23: createTodo with an empty or blank text, or with a priority that is
\* not an integer in 1..5 (0, 6, 3.5), throws and adds no item to the store
C23_CreateRejectsInvalid ==
    [][CreatingRejected =>
         /\ lastOp'.outcome.threw
         /\ todos' = todos
         /\ nextId' = nextId]_vars

C23_Witness ==
    /\ lastOp.op = "createTodo"
    /\ lastOp.args = [text |-> <<"b">>, metadata |-> [priority |-> Half(3)]]
    /\ lastOp.outcome.threw
    /\ lastOp.outcome.error = ZodError("priority")
    /\ DOMAIN todos = {1}

(***************************************************************************)
(* Invariants of the stored items.                                         *)
(***************************************************************************)
\* C24: in every reachable state the text of every stored item is non-empty
\* after trimming
C24_TextNeverBlank ==
    \A id \in DOMAIN todos : ~Blank(Stored(id).text)

\* the fields a create, update or setPriority call carries
SuppliedFields(op) ==
    IF op.op = "createTodo" THEN op.args.metadata ELSE FieldsOf(op)

SettingBadPriority ==
    /\ apiCalls' = apiCalls + 1
    /\ lastOp'.op \in {"createTodo", "updateTodo", "setPriority"}
    /\ BadPriority(SuppliedFields(lastOp'))

PrioritiesInRange(t) ==
    \A id \in DOMAIN t : t[id].priority \in MinPriority..MaxPriority

\* C25: the priority of every stored item is an integer in 1..5 in every
\* reachable state, and a create, update or setPriority call that carries a
\* priority outside that range throws with the table unchanged
C25_PriorityInRange ==
    /\ PrioritiesInRange(todos)
    /\ [][/\ PrioritiesInRange(todos')
          /\ SettingBadPriority => (lastOp'.outcome.threw /\ todos' = todos)]_vars

C25_Witness ==
    /\ lastOp.op = "setPriority"
    /\ lastOp.args = [id |-> 1, args |-> [priority |-> 6]]
    /\ lastOp.outcome.threw
    /\ 1 \in DOMAIN todos
    /\ Stored(1).priority = DefaultPriority

(***************************************************************************)
(* Timestamps and identity.                                                *)
(***************************************************************************)
\* a step that is a successful update, wrapper or reorder call
Mutating ==
    /\ apiCalls' = apiCalls + 1
    /\ lastOp'.op \in UpdateOps \cup {"reorderTodos"}
    /\ ~lastOp'.outcome.threw

\* the stored items the call of this step names
MutatedIds ==
    IF lastOp'.op = "reorderTodos"
    THEN Named(lastOp'.args.items) \cap DOMAIN todos
    ELSE {lastOp'.args.id}

\* C26 as stated: every successful update, toggleStarred, setPriority, setTags
\* and reorder leaves each item it names with an updatedAt strictly greater
\* than the item had before
C26_UpdatedAtStrictlyGreater ==
    [][Mutating =>
         \A id \in MutatedIds : todos'[id].updatedAt > todos[id].updatedAt]_vars

\* C26: every successful update, toggleStarred, setPriority, setTags and
\* reorder sets the updatedAt of each item it names to the clock's reading at
\* the call: strictly greater than before when the clock has advanced since
\* the item was last written, the same value when it has not
C26_UpdatedAtIsClock ==
    [][Mutating =>
         \A id \in MutatedIds :
            /\ todos'[id].updatedAt = clock
            /\ clock > todos[id].updatedAt => todos'[id].updatedAt > todos[id].updatedAt
            /\ clock = todos[id].updatedAt => todos'[id].updatedAt = todos[id].updatedAt]_vars

C26_Witness ==
    /\ lastOp.op = "toggleStarred"
    /\ lastOp.args.id = 1
    /\ ~lastOp.outcome.threw
    /\ apiCalls = 1
    /\ 1 \in DOMAIN todos
    /\ todos[1].updatedAt = 1
    /\ todos[1].createdAt = 0

\* C27: from its creation until it is deleted an item keeps its id and its
\* createdAt, whatever update, toggleStarred, setPriority, setTags, reorder
\* or other call is made
C27_IdCreatedAtImmutable ==
    [][\A id \in DOMAIN todos \cap DOMAIN todos' :
          /\ todos'[id].id = todos[id].id
          /\ todos'[id].id = id
          /\ todos'[id].createdAt = todos[id].createdAt]_vars

C27_Witness ==
    /\ lastOp.op = "setTags"
    /\ lastOp.args.id = 1
    /\ ~lastOp.outcome.threw
    /\ 1 \in DOMAIN todos
    /\ Stored(1).tags = <<"x">>
    /\ todos[1].id = 1
    /\ todos[1].createdAt = 0
    /\ todos[1].updatedAt = 1

(***************************************************************************)
(* Calls and requests with input that fails validation.                    *)
(***************************************************************************)
\* the arguments of a store call are malformed or out of range
InvalidInput(op) ==
    IF op.op = "createTodo"
    THEN Blank(op.args.text) \/ BadPriority(op.args.metadata)
    ELSE IF op.op \in UpdateOps
    THEN op.args.id < 1 \/ ~FieldsInRange(FieldsOf(op))
    ELSE IF op.op = "deleteTodo" THEN op.args < 1
    ELSE IF op.op = "reorderTodos" THEN ~op.args.array
    ELSE FALSE

\* C28: a createTodo, updateTodo, toggleStarred, setPriority, setTags,
\* deleteTodo or reorderTodos call whose input fails validation throws and
\* leaves every stored item as it was, updatedAt included
C28_InvalidInputNoMutation ==
    [][(apiCalls' = apiCalls + 1 /\ InvalidInput(lastOp')) =>
          /\ lastOp'.outcome.threw
          /\ todos' = todos]_vars

C28_Witness ==
    /\ lastOp.op = "updateTodo"
    /\ lastOp.args = [id |-> 1, updates |-> [priority |-> 0]]
    /\ lastOp.outcome.threw
    /\ 1 \in DOMAIN todos
    /\ todos[1].updatedAt = 0
    /\ todos[1].priority = DefaultPriority

ReorderOp == "POST /api/todos/reorder"

\* the body has no orderedIds, or one that is not an array, or one with an id
\* that is not well-formed
MalformedReorderBody(body) ==
    \/ ~Has(body, "orderedIds")
    \/ ~body.orderedIds.array
    \/ \E i \in DOMAIN body.orderedIds.items : body.orderedIds.items[i] < 1

\* C29: POST /api/todos/reorder with orderedIds missing, not an array, or
\* holding an id that is not well-formed is answered with HTTP 400 and no
\* stored item changes (no displayOrder, no updatedAt)
C29_ReorderRejected400 ==
    [][(apiCalls' = apiCalls + 1 /\ lastOp'.op = ReorderOp
          /\ MalformedReorderBody(lastOp'.args)) =>
          /\ lastOp'.status = 400
          /\ todos' = todos]_vars

C29_Witness ==
    /\ lastOp.op = ReorderOp
    /\ lastOp.args = [orderedIds |-> [array |-> TRUE, items |-> <<1, NoId>>]]
    /\ lastOp.status = 400
    /\ DOMAIN todos = {1, 2}
    /\ todos[1].displayOrder = 1
    /\ todos[1].updatedAt = 0

\* the request carries malformed or out-of-range input
MalformedRequest(op) ==
    IF op.op = "GET /api/todos"
    THEN Has(op.args, "priority") /\ ParseInt(op.args.priority) \notin MinPriority..MaxPriority
    ELSE IF op.op = "POST /api/todos"
    THEN \/ ~Has(op.args, "text")
         \/ Blank(op.args.text)
         \/ BadPriority(op.args)
    ELSE IF op.op = PatchOp
    THEN op.args.id < 1 \/ ~FieldsInRange(op.args.body)
    ELSE IF op.op = "DELETE /api/todos/:id" THEN op.args.id < 1
    ELSE IF op.op = ReorderOp THEN MalformedReorderBody(op.args)
    ELSE FALSE

\* C30: every REST request with malformed or out-of-range input (list
\* filters, create body, update body or id, delete id, reorder body) is
\* answered with HTTP 400
C30_MalformedRequest400 ==
    MalformedRequest(lastOp) => lastOp.status = 400

(***************************************************************************)
(* Reorders of an empty list and of lists with ids that are not stored.    *)
(***************************************************************************)
\* C32: reorderTodos with an empty array returns without an error and changes
\* no field of any stored item (no displayOrder, no updatedAt)
C32_EmptyReorderNoOp ==
    [][(Reordering /\ lastOp'.args = [array |-> TRUE, items |-> <<>>]) =>
          /\ ~lastOp'.outcome.threw
          /\ todos' = todos]_vars

C32_Witness ==
    /\ lastOp.op = "reorderTodos"
    /\ lastOp.args = [array |-> TRUE, items |-> <<>>]
    /\ ~lastOp.outcome.threw
    /\ DOMAIN todos = {1, 2}
    /\ todos[1].updatedAt = 0
    /\ todos[2].updatedAt = 0
    /\ clock = 1

\* a reorder step whose list holds well-formed ids, one of them not stored
ReorderingWithUnknown ==
    /\ Reordering
    /\ lastOp'.args.array
    /\ \A i \in 1..Len(lastOp'.args.items) : lastOp'.args.items[i] >= 1
    /\ \E i \in 1..Len(lastOp'.args.items) : lastOp'.args.items[i] \notin DOMAIN todos

\* C36: reorderTodos with a list that holds a well-formed id of no stored item
\* throws nothing, creates no item, and gives every stored item of the list
\* the displayOrder of its position in the list
C36_ReorderUnknownIdIgnored ==
    [][ReorderingWithUnknown =>
          LET items == lastOp'.args.items
          IN  /\ ~lastOp'.outcome.threw
              /\ DOMAIN todos' = DOMAIN todos
              /\ \A i \in 1..Len(items) :
                    (items[i] \in DOMAIN todos /\ \A j \in (i + 1)..Len(items) : items[j] # items[i])
                      => todos'[items[i]].displayOrder = i - 1]_vars

C36_Witness ==
    /\ lastOp.op = "reorderTodos"
    /\ lastOp.args = [array |-> TRUE, items |-> <<MaxTodos + 1, 1>>]
    /\ ~lastOp.outcome.threw
    /\ DOMAIN todos = {1, 2}
    /\ todos[1].displayOrder = 1
    /\ todos[1].updatedAt = 1
    /\ todos[2].displayOrder = 2
    /\ todos[2].updatedAt = 0

\* the call of this step may write the displayOrder of item id: a reorder
\* that names it, or an update of it that supplies displayOrder
MayWriteDisplayOrder(id) ==
    \/ /\ lastOp'.op = "reorderTodos"
       /\ lastOp'.args.array
       /\ id \in Named(lastOp'.args.items)
    \/ /\ lastOp'.op = ReorderOp
       /\ ~MalformedReorderBody(lastOp'.args)
       /\ id \in Named(lastOp'.args.orderedIds.items)
    \/ /\ lastOp'.op \in {"updateTodo", PatchOp}
       /\ lastOp'.args.id = id
       /\ Has(FieldsOf(lastOp'), "displayOrder")

\* C34: the displayOrder of a stored item changes only in a reorder that names
\* the item or an update of it that supplies displayOrder: creates and deletes
\* of other items, toggleStarred, setPriority, setTags and updates of other
\* fields leave it as it was
C34_DisplayOrderFrame ==
    [][\A id \in DOMAIN todos \cap DOMAIN todos' :
          todos'[id].displayOrder # todos[id].displayOrder =>
             (apiCalls' = apiCalls + 1 /\ MayWriteDisplayOrder(id))]_vars

C34_Witness ==
    /\ lastOp.op = "deleteTodo"
    /\ lastOp.args = 1
    /\ ReturnedValue(lastOp, TRUE)
    /\ DOMAIN todos = {2, 3}
    /\ todos[2].displayOrder = 2
    /\ todos[3].displayOrder = 3

(***************************************************************************)
(* Lists with an empty tags filter.                                        *)
(***************************************************************************)
\* the filters without their tags
WithoutTags(f) == [k \in DOMAIN f \ {"tags"} |-> f[k]]

\* the last call was a list whose tags filter is an empty array
ListedWithEmptyTags ==
    /\ lastOp.op = "getTodos"
    /\ Has(lastOp.args, "tags")
    /\ Len(lastOp.args.tags) = 0

\* C39: getTodos with tags: [] applies no tag filtering: it returns what the
\* same call without the tags filter returns
C39_EmptyTagsNoFilter ==
    ListedWithEmptyTags =>
        /\ ~lastOp.outcome.threw
        /\ lastOp.outcome.value = getTodos(todos, WithoutTags(lastOp.args)).value

C39_Witness ==
    /\ ListedWithEmptyTags
    /\ lastOp.args = [starred |-> TRUE, tags |-> <<>>]
    /\ DOMAIN todos = {1, 2, 3}
    /\ IdsOf(lastOp.outcome.value) = <<2>>

(***************************************************************************)
(* A chat turn and REST requests on one store.                             *)
(***************************************************************************)
\* this step is an iteration of the chat loop, which dispatched a tool call
Dispatching == Len(dispatched') = Len(dispatched) + 1

\* the record of the tool call this step dispatched
Dispatched == dispatched'[Len(dispatched')]

\* this step handled a REST request
Requesting == apiCalls' = apiCalls + 1

\* this step ran an update, of the chat turn or of a PATCH request
ChatUpdating == Dispatching /\ Dispatched.toolUse.name = "update_todo"

PatchUpdating == Requesting /\ lastOp'.op = PatchOp

\* C31: an update of a stored item by a chat turn and one by a REST request
\* that overlaps the turn both succeed, in either order, and after each the
\* stored value of a field it supplied is the value it supplied: the update
\* that ran last wins
C31_LastWriteWins ==
    [][/\ (ChatUpdating /\ Dispatched.toolUse.input.id \in DOMAIN todos) =>
            /\ ~Dispatched.threw
            /\ rowToTodo(todos'[Dispatched.toolUse.input.id]).completed
                  = Dispatched.toolUse.input.completed
       /\ (PatchUpdating /\ lastOp'.args.id \in DOMAIN todos) =>
            /\ lastOp'.status = 200
            /\ rowToTodo(todos'[lastOp'.args.id]).completed
                  = lastOp'.args.body.completed]_vars

C31_Witness ==
    /\ pc = "awaiting_model"
    /\ Len(dispatched) = 1
    /\ dispatched[1].toolUse.name = "update_todo"
    /\ dispatched[1].toolUse.input.completed
    /\ ~dispatched[1].threw
    /\ dispatched[1].changed
    /\ lastOp.op = PatchOp
    /\ lastOp.status = 200
    /\ 1 \in DOMAIN todos
    /\ ~rowToTodo(todos[1]).completed

\* this step is the rejection of a completion call
CompletionFailing == pc = "awaiting_model" /\ pc' = "failed"

\* C35: when a completion call of a chat turn fails after tool calls of the
\* turn have changed the store, the changes stay: the step that answers the
\* caller leaves the store as it is, and the answer is an error without a
\* conversation history
C35_NoRollbackOnFailure ==
    [][CompletionFailing =>
          /\ todos' = todos
          /\ nextId' = nextId
          /\ reply'.status = 500
          /\ ~Has(reply', "conversationHistory")
          /\ ~Has(reply', "response")]_vars

C35_Witness ==
    /\ pc = "failed"
    /\ Len(dispatched) = 1
    /\ dispatched[1].called = "createTodo"
    /\ dispatched[1].changed
    /\ DOMAIN todos = {1, 2}
    /\ Stored(2).text = <<"a">>
    /\ reply = [status |-> 500, error |-> "Failed to process message"]

PostOp == "POST /api/todos"

\* this step created an item, in the chat turn or for a POST request
ChatCreating ==
    Dispatching /\ Dispatched.called = "createTodo" /\ ~Dispatched.threw

PostCreating == Requesting /\ lastOp'.op = PostOp /\ lastOp'.status = 201

\* the displayOrder the create of this step returned
NewDisplayOrder ==
    IF ChatCreating THEN Dispatched.content[2].displayOrder
    ELSE lastOp'.outcome.value.displayOrder

\* the displayOrder values the creates before this step returned, as far as
\* the turn's tool results and the last REST response still show them
EarlierDisplayOrders ==
    {dispatched[i].content[2].displayOrder :
        i \in {j \in DOMAIN dispatched :
                 dispatched[j].called = "createTodo" /\ ~dispatched[j].threw}}
      \cup (IF lastOp.op = PostOp /\ lastOp.status = 201
            THEN {lastOp.outcome.value.displayOrder} ELSE {})

\* C37 as stated: a create of a chat turn or of a REST request never gets a
\* displayOrder another create has got: its value is strictly greater than
\* that of every create that ran before it
C37_CreateAboveEarlierCreates ==
    [][(ChatCreating \/ PostCreating) =>
          \A d \in EarlierDisplayOrders : NewDisplayOrder > d]_vars

\* C37: a create of a chat turn or of a REST request reads the maximum and
\* inserts in one step, so it gets a displayOrder strictly greater than that
\* of every item stored at that moment, the items of earlier creates included
C37_CreateAboveStored ==
    [][(ChatCreating \/ PostCreating) =>
          /\ \A id \in DOMAIN todos : NewDisplayOrder > todos[id].displayOrder
          /\ \E id \in DOMAIN todos' \ DOMAIN todos :
                todos'[id].displayOrder = NewDisplayOrder]_vars

C37_Witness ==
    /\ pc = "awaiting_model"
    /\ Len(dispatched) = 1
    /\ dispatched[1].called = "createTodo"
    /\ ~dispatched[1].threw
    /\ dispatched[1].content[2].displayOrder = 2
    /\ lastOp.op = PostOp
    /\ lastOp.status = 201
    /\ lastOp.outcome.value.displayOrder = 3
    /\ DOMAIN todos = {1, 2, 3}

\* this step dispatched a tool call that names an item which is not stored
\* (any longer)
DispatchingOnMissing ==
    /\ Dispatching
    /\ Dispatched.toolUse.name \in
          {"update_todo", "toggle_starred", "set_priority", "delete_todo"}
    /\ Has(Dispatched.toolUse.input, "id")
    /\ Dispatched.toolUse.input.id \notin DOMAIN todos

\* C38: a tool call of a chat turn that names an item deleted meanwhile does
\* not end the turn and changes no stored item: update_todo, toggle_starred
\* and set_priority give the tool result "Error: Todo <id> not found",
\* delete_todo gives a result with success = false
C38_ToolCallOnDeletedItem ==
    [][DispatchingOnMissing =>
          /\ pc' = "awaiting_model"
          /\ todos' = todos
          /\ IF Dispatched.toolUse.name = "delete_todo"
             THEN /\ ~Dispatched.threw
                  /\ Dispatched.content = JsonStringify(DeleteResult(FALSE))
             ELSE /\ Dispatched.threw
                  /\ Dispatched.content
                        = ErrorText(NotFoundError(Dispatched.toolUse.input.id))]_vars

C38_Witness ==
    /\ pc = "awaiting_model"
    /\ Len(dispatched) = 2
    /\ dispatched[1].toolUse.name = "toggle_starred"
    /\ dispatched[1].changed
    /\ lastOp.op = "DELETE /api/todos/:id"
    /\ lastOp.args.id = 1
    /\ lastOp.status = 204
    /\ dispatched[2].toolUse.name = "update_todo"
    /\ dispatched[2].threw
    /\ ~dispatched[2].changed
    /\ todos = EmptyTable

\* this step is the handler running on after a completion has arrived
Returning == Len(responses') = Len(responses) + 1

\* C33: when every completion call returns and the LLM asks for a tool only
\* finitely often, a chat turn that waits for a completion eventually answers
\* its caller (200, or 500 when a completion call failed); the loop is left
\* at the first response whose stop reason is not tool_use, and a response
\* that asks for a tool always leads to another completion call, however many
\* iterations the turn has made
C33_TurnTerminates ==
    /\ (pc = "awaiting_model") ~> (reply.status = 200 \/ llmFailures > 0)
    /\ [](\A i \in 1..Len(responses) :
             responses[i].stop_reason # "tool_use"
                => i = Len(responses) /\ pc = "done" /\ reply.status = 200)
    /\ [][Returning /\ response'.stop_reason # "tool_use"
            => /\ pc' = "done"
               /\ reply'.status = 200
               /\ dispatched' = dispatched
               /\ llmCalls' = llmCalls]_vars
    /\ [][Returning /\ AsksForTool(response')
            => /\ pc' = "awaiting_model"
               /\ Len(dispatched') = Len(dispatched) + 1
               /\ Len(llmCalls') = Len(llmCalls) + 1]_vars

C33_Witness ==
    /\ pc = "done"
    /\ reply.status = 200
    /\ llmFailures = 0
    /\ Len(dispatched) = MaxToolIters
    /\ Len(responses) = MaxToolIters + 1
    /\ responses[Len(responses)].stop_reason = "end_turn"

====
